---- MODULE Spec2Model ----
(***************************************************************************)
(* SecureBox: login throttling, session tokens and password-reset tokens.  *)
(* Time is the value of Date.now() in milliseconds.  Every handler is cut  *)
(* at its awaits: one action per database round trip or collaborator call. *)
(***************************************************************************)
EXTENDS Integers, Sequences, FiniteSets, TLC

VARIABLES now, ticks, calls, users, loginAttempts, req, auth, jar, passwordResetTokens, rst, minted, probe, cfm, pwChanges, reg, pat, files, passwords, pwIds, pwr, loginEntries, trustedDevices

vars == <<now, ticks, calls, users, loginAttempts, req, auth, jar, passwordResetTokens, rst, minted, probe, cfm, pwChanges, reg, pat, files, passwords, pwIds, pwr, loginEntries, trustedDevices>>

(***************************************************************************)
(* Program constants                                                       *)
(***************************************************************************)
\* 10 * 60 * 1000: the window of canUserLogin and the length of a lockout
TenMinutesMs == 10 * 60 * 1000
\* failedAttempts.length >= 5
MaxFailedAttempts == 5
\* process.env.TOKEN_EXPIRATION_MINUTES, the session token lifetime
TOKEN_EXPIRATION_MINUTES == 30
\* saveResetToken: Date.now() + 60 * 60 * 10000
ResetTokenLifetimeMs == 60 * 60 * 10000
\* the signing key, process.env.SECRET_KEY
SECRET_KEY == "SECRET_KEY"

(***************************************************************************)
(* Bounds of the exploration                                               *)
(***************************************************************************)
MaxTicks == 3
MaxCalls == 2
MaxResetTicks == 2

UserIds == {"u1", "u2"}
ReqSlots == {1, 2}
Slots == {1}
NoUser == "none"
NoTime == -1

\* crypto.createHash("sha256").update(p).digest("hex"): a digest is not its
\* input, and distinct inputs of the model have distinct digests
Sha256(p) == <<"sha256", p>>

\* the accounts of the model: the rows createUser has written
InitialUsers ==
  [u \in UserIds |->
     IF u = "u1" THEN [login |-> "a@example.com", password |-> Sha256("pw1")]
                 ELSE [login |-> "b@example.com", password |-> Sha256("pw2")]]

(***************************************************************************)
(* jsonwebtoken, as the routes use it: sign stamps iat = floor(now/1000)   *)
(* and exp = iat + minutes*60; verify first checks the signature, then     *)
(* rejects when floor(now/1000) >= exp.                                    *)
(***************************************************************************)
NoToken == [user_id |-> NoUser, iat |-> NoTime, exp |-> NoTime, key |-> "none"]

JwtSign(userId, key, minutes, t) ==
  [user_id |-> userId, iat |-> t \div 1000,
   exp |-> (t \div 1000) + minutes * 60, key |-> key]

\* a verifier that still accepts a token in the second of its exp
JwtVerifyLateExpiry(token, key, t) ==
  IF token.key # key THEN "JsonWebTokenError"
  ELSE IF t \div 1000 > token.exp THEN "TokenExpiredError"
  ELSE "ok"

JwtVerify(token, key, t) ==
  IF token.key # key THEN "JsonWebTokenError"
  ELSE IF t \div 1000 >= token.exp THEN "TokenExpiredError"
  ELSE "ok"

(***************************************************************************)
(* config/db/queries/users.js                                              *)
(***************************************************************************)
Range(s) == {s[i] : i \in 1..Len(s)}

SetMax(S) == CHOOSE x \in S : \A y \in S : y <= x

\* getUserById / the select of getUserByLoginAndPassword: [] when no row
getUserById(tbl, userId) == IF userId \in DOMAIN tbl THEN userId ELSE NoUser

\* getUserByLogin: the row with the login, [] when there is none
getUserByLogin(tbl, login) ==
  IF \E u \in DOMAIN tbl : tbl[u].login = login
  THEN CHOOSE u \in DOMAIN tbl : tbl[u].login = login
  ELSE NoUser

\* a select without the condition on success
failedAttemptsSinceAnyOutcome(rows, userId, tenMinutesAgo) ==
  {i \in 1..Len(rows) :
     /\ rows[i].userId = userId
     /\ rows[i].timestamp >= tenMinutesAgo}

\* the rows the select of canUserLogin returns
failedAttemptsSince(rows, userId, tenMinutesAgo) ==
  {i \in 1..Len(rows) :
     /\ rows[i].userId = userId
     /\ rows[i].success = FALSE
     /\ rows[i].timestamp >= tenMinutesAgo}

Allowed == [canLogin |-> TRUE, lockoutUntil |-> NoTime]

\* a throttle that counts the lockout from the oldest failure of the window
canUserLoginOldestFailure(rows, userId, t0, t1) ==
  LET failedAttempts == failedAttemptsSince(rows, userId, t0 - TenMinutesMs)
  IN IF Cardinality(failedAttempts) >= MaxFailedAttempts
     THEN LET first == CHOOSE i \in failedAttempts : \A j \in failedAttempts : i <= j
              lockoutEnd == rows[first].timestamp + TenMinutesMs
          IN IF lockoutEnd > t1 THEN [canLogin |-> FALSE, lockoutUntil |-> lockoutEnd]
             ELSE Allowed
     ELSE Allowed

\* a throttle that counts the failures recorded after the last success
canUserLoginSinceLastSuccess(rows, userId, t0, t1) ==
  LET wins == {i \in 1..Len(rows) : rows[i].userId = userId /\ rows[i].success}
      from == IF wins = {} THEN 0 ELSE SetMax(wins)
      failedAttempts == {i \in failedAttemptsSince(rows, userId, t0 - TenMinutesMs) : i > from}
  IN IF Cardinality(failedAttempts) >= MaxFailedAttempts
     THEN LET lockoutEnd == SetMax({rows[i].timestamp : i \in failedAttempts}) + TenMinutesMs
          IN IF lockoutEnd > t1 THEN [canLogin |-> FALSE, lockoutUntil |-> lockoutEnd]
             ELSE Allowed
     ELSE Allowed

\* canUserLogin: t0 is the Date.now() of tenMinutesAgo, taken before the
\* select is awaited, t1 the new Date() that lockoutEnd is compared with
canUserLogin(rows, userId, t0, t1) ==
  LET failedAttempts == failedAttemptsSince(rows, userId, t0 - TenMinutesMs)
  IN IF Cardinality(failedAttempts) >= MaxFailedAttempts
     THEN LET lockoutEnd == SetMax({rows[i].timestamp : i \in failedAttempts}) + TenMinutesMs
          IN IF lockoutEnd > t1 THEN [canLogin |-> FALSE, lockoutUntil |-> lockoutEnd]
             ELSE Allowed
     ELSE Allowed

\* a recordLoginAttempt that keeps failures only
recordLoginAttemptFailuresOnly(rows, userId, timestamp, success) ==
  IF success THEN rows
  ELSE Append(rows, [userId |-> userId, timestamp |-> timestamp, success |-> success])

\* recordLoginAttempt: one row is inserted, nothing else is touched
recordLoginAttempt(rows, userId, timestamp, success) ==
  Append(rows, [userId |-> userId, timestamp |-> timestamp, success |-> success])

\* what getUserByLoginAndPassword returns
RetNull == [kind |-> "null", lockoutUntil |-> NoTime, user |-> NoUser]
RetLocked(until) == [kind |-> "locked", lockoutUntil |-> until, user |-> NoUser]
RetUser(u) == [kind |-> "user", lockoutUntil |-> NoTime, user |-> u]
NoRet == [kind |-> "none", lockoutUntil |-> NoTime, user |-> NoUser]

\* a query that compares the digest before it looks at the lockout
getUserByLoginAndPasswordHashFirst(userId, storedPassword, password, loginCheck) ==
  IF Sha256(password) = storedPassword
  THEN [ret |-> RetUser(userId), success |-> TRUE]
  ELSE IF ~loginCheck.canLogin
  THEN [ret |-> RetLocked(loginCheck.lockoutUntil), success |-> FALSE]
  ELSE [ret |-> RetNull, success |-> FALSE]

\* getUserByLoginAndPassword once the user row and loginCheck are known:
\* the value it returns and the success flag it records
getUserByLoginAndPassword(userId, storedPassword, password, loginCheck) ==
  IF ~loginCheck.canLogin
  THEN [ret |-> RetLocked(loginCheck.lockoutUntil), success |-> FALSE]
  ELSE IF Sha256(password) # storedPassword
  THEN [ret |-> RetNull, success |-> FALSE]
  ELSE [ret |-> RetUser(userId), success |-> TRUE]

(***************************************************************************)
(* POST /login                                                             *)
(***************************************************************************)
\* values a JSON body field can take
Undefined == "<undefined>"
NotAString == "<number>"
Blank == "   "
Falsy(v) == v \in {Undefined, ""}
IsString(v) == v \notin {Undefined, NotAString}
Trim(v) == IF v = Blank THEN "" ELSE v

NoRes == [status |-> 0, detail |-> "", until |-> NoTime, cookie |-> NoToken]
Res(status, detail) == [status |-> status, detail |-> detail, until |-> NoTime, cookie |-> NoToken]

\* app.js error middleware: err.statusCode || 500, and as detail
\* err.message || 'Blad serwera'
ErrorMiddleware(statusCode, message) ==
  Res(IF statusCode = 0 THEN 500 ELSE statusCode,
      IF message = "" THEN "Blad serwera" ELSE message)

\* the TypeError of `const [user] = <value>` for a value that is no iterable
NotIterable(ret) ==
  IF ret.kind = "null" THEN "TypeError: object null is not iterable"
  ELSE "TypeError: object is not iterable"

NoHash == <<"none", "">>

IdleReq ==
  [pc |-> "idle", login |-> "", password |-> "", user |-> NoUser, userPassword |-> NoHash,
   t0 |-> NoTime, loginCheck |-> Allowed, timestamp |-> NoTime, success |-> FALSE,
   ret |-> NoRet, recaptcha |-> "none", res |-> NoRes]

IdleAuth == [pc |-> "idle", token |-> NoToken, user |-> NoUser, nexts |-> 0, res |-> NoRes]

InFlight == {r \in ReqSlots : req[r].pc \notin {"idle", "done"}}

\* a request that has been answered: its locals are gone, what is kept is
\* the account it found, what the query returned and the response
Done(q, res) ==
  [IdleReq EXCEPT !.pc = "done", !.user = q.user, !.ret = q.ret,
                  !.recaptcha = q.recaptcha, !.res = res]


\* lines 30-39: the three field checks
LoginStart(r, body) ==
  /\ req[r].pc \in {"idle", "done"}
  /\ calls < MaxCalls
  /\ calls' = calls + 1
  /\ LET login == body.login
         password == body.password
         token2 == body.token2
         fresh == [IdleReq EXCEPT !.login = login, !.password = password]
     IN req' = [req EXCEPT ![r] =
          IF Falsy(login) \/ Falsy(password) \/ Falsy(token2)
          THEN Done(fresh, ErrorMiddleware(400, "Missing required fields"))
          ELSE IF ~IsString(login) \/ ~IsString(password) \/ ~IsString(token2)
          THEN Done(fresh, ErrorMiddleware(400, "Invalid field types"))
          ELSE IF Trim(login) = "" \/ Trim(password) = "" \/ Trim(token2) = ""
          THEN Done(fresh, ErrorMiddleware(400, "Fields cannot be empty"))
          ELSE [fresh EXCEPT !.pc = "selectUser"]]
  /\ UNCHANGED <<now, ticks, users, loginAttempts, auth, jar, passwordResetTokens, rst, minted, probe, cfm, pwChanges, reg, pat, files, passwords, pwIds, pwr, loginEntries, trustedDevices>>

\* getUserByLoginAndPassword, the select on users.  With no row it returns
\* null, and the route's `const [user] = null` throws a TypeError that the
\* error middleware answers
LoginSelectUser(r) ==
  /\ req[r].pc = "selectUser"
  /\ LET u == getUserByLogin(users, req[r].login)
     IN req' = [req EXCEPT ![r] =
          IF u = NoUser
          THEN Done([@ EXCEPT !.ret = RetNull], ErrorMiddleware(0, NotIterable(RetNull)))
          ELSE [@ EXCEPT !.pc = "canUserLogin", !.user = u,
                         !.userPassword = users[u].password, !.t0 = now]]
  /\ UNCHANGED <<now, ticks, calls, users, loginAttempts, auth, jar, passwordResetTokens, rst, minted, probe, cfm, pwChanges, reg, pat, files, passwords, pwIds, pwr, loginEntries, trustedDevices>>

\* the select of canUserLogin comes back: loginCheck is decided, the digest
\* is compared when the account is not locked, and recordLoginAttempt takes
\* its timestamp
LoginCanUserLogin(r) ==
  /\ req[r].pc = "canUserLogin"
  /\ LET loginCheck == canUserLogin(loginAttempts, req[r].user, req[r].t0, now)
         out == getUserByLoginAndPassword(req[r].user, req[r].userPassword,
                                          req[r].password, loginCheck)
     IN req' = [req EXCEPT ![r] =
          [@ EXCEPT !.pc = "record", !.loginCheck = loginCheck, !.ret = out.ret,
                    !.success = out.success, !.timestamp = now]]
  /\ UNCHANGED <<now, ticks, calls, users, loginAttempts, auth, jar, passwordResetTokens, rst, minted, probe, cfm, pwChanges, reg, pat, files, passwords, pwIds, pwr, loginEntries, trustedDevices>>

\* the route after getUserByLoginAndPassword has returned `ret`: array
\* destructuring of null or of the {error, lockoutUntil} object throws
LoginAfterQuery(q) ==
  IF q.ret.kind \in {"null", "locked"}
  THEN Done(q, ErrorMiddleware(0, NotIterable(q.ret)))
  ELSE [q EXCEPT !.pc = "captcha"]

\* the insert of recordLoginAttempt completes and the query function returns
LoginRecord(r) ==
  /\ req[r].pc = "record"
  /\ loginAttempts' = recordLoginAttempt(loginAttempts, req[r].user, req[r].timestamp,
                                         req[r].success)
  /\ req' = [req EXCEPT ![r] = LoginAfterQuery(@)]
  /\ UNCHANGED <<now, ticks, calls, users, auth, jar, passwordResetTokens, rst, minted, probe, cfm, pwChanges, reg, pat, files, passwords, pwIds, pwr, loginEntries, trustedDevices>>

\* a route that signs the token whatever validateRecaptcha answered
LoginIssueSkipCaptcha(q, ok, t) ==
  LET token == JwtSign(q.user, SECRET_KEY, TOKEN_EXPIRATION_MINUTES, t)
  IN Done([q EXCEPT !.recaptcha = IF ok THEN "true" ELSE "false"], [status |-> 200, detail |-> "user", until |-> NoTime, cookie |-> token])

\* lines 45-66: validateRecaptcha has answered `ok`; the token is signed and
\* set as the cookie 'token'
LoginIssue(q, ok, t) ==
  IF ~ok THEN Done([q EXCEPT !.recaptcha = "false"], ErrorMiddleware(401, "Invalid"))
  ELSE LET token == JwtSign(q.user, SECRET_KEY, TOKEN_EXPIRATION_MINUTES, t)
       IN Done([q EXCEPT !.recaptcha = "true"], [status |-> 200, detail |-> "user", until |-> NoTime, cookie |-> token])

LoginCaptcha(r, ok) ==
  /\ req[r].pc = "captcha"
  /\ req' = [req EXCEPT ![r] = LoginIssue(@, ok, now)]
  /\ jar' = IF req'[r].res.cookie # NoToken THEN jar \cup {req'[r].res.cookie} ELSE jar
  /\ UNCHANGED <<now, ticks, calls, users, loginAttempts, auth, passwordResetTokens, rst, minted, probe, cfm, pwChanges, reg, pat, files, passwords, pwIds, pwr, loginEntries, trustedDevices>>

(***************************************************************************)
(* Password-reset tokens: config/db/queries/users.js                       *)
(***************************************************************************)
\* generateResetToken: 32 random bytes; the n-th token drawn is the number
\* n, no two draws are equal.  0 stands for a string that was never drawn.
NoResetToken == -1
generateResetToken(n) == n + 1

\* the password_reset_tokens table takes any row whose id is new: the
\* table has no unique index on user_id
ResetTokenConflict(rows, row) == \E x \in rows : x.id = row.id

\* a saveResetToken without its delete
deleteByUserIdNothing(rows, userId) == rows

\* saveResetToken, first statement: delete ... where userId = userId
deleteByUserId(rows, userId) == {x \in rows : x.userId # userId}

\* saveResetToken, second statement: the insert
insertResetToken(rows, row) == IF ResetTokenConflict(rows, row) THEN rows ELSE rows \cup {row}

\* a verifyResetToken that refuses a token at the instant of its expiresAt
verifyResetTokenExpiredAtBoundary(rows, tbl, resetToken, currentTime) ==
  LET found == {x \in rows : x.token = resetToken}
  IN IF found = {} THEN NoUser
     ELSE LET tokenRecord == CHOOSE x \in found : TRUE
          IN IF tokenRecord.expiresAt <= currentTime THEN NoUser
             ELSE getUserById(tbl, tokenRecord.userId)

\* verifyResetToken: the account of the token's row, or null (NoUser)
verifyResetToken(rows, tbl, resetToken, currentTime) ==
  LET found == {x \in rows : x.token = resetToken}
  IN IF found = {} THEN NoUser
     ELSE LET tokenRecord == CHOOSE x \in found : TRUE
          IN IF tokenRecord.expiresAt < currentTime THEN NoUser
             ELSE getUserById(tbl, tokenRecord.userId)

\* a deleteResetToken that does not look at the returned rows
deleteResetTokenAlwaysTrue(rows, resetToken) ==
  [rows |-> {x \in rows : x.token # resetToken}, deleted |-> TRUE]

\* deleteResetToken: delete ... where token = resetToken returning id
deleteResetToken(rows, resetToken) ==
  [rows |-> {x \in rows : x.token # resetToken},
   deleted |-> \E x \in rows : x.token = resetToken]

(***************************************************************************)
(* POST /users/reset-password                                              *)
(***************************************************************************)
RstSlots == {1, 2}

IdleRst ==
  [pc |-> "idle", login |-> "", user |-> NoUser, token |-> NoResetToken,
   expiresAt |-> NoTime, prior |-> {}, res |-> NoRes]

\* an answered request keeps its response only
RstDone(q, res) == [IdleRst EXCEPT !.pc = "done", !.res = res]

GenericResetAnswer == Res(200, "Jesli login istnieje, link resetujacy zostal wyslany")

\* lines 241-247.  Slots are interchangeable: a request takes the lowest
\* free one.
ResetStart(s, login) ==
  /\ rst[s].pc \in {"idle", "done"}
  /\ \A o \in RstSlots : o < s => rst[o].pc \notin {"idle", "done"}
  /\ calls < MaxCalls
  /\ calls' = calls + 1
  /\ rst' = [rst EXCEPT ![s] =
       IF Falsy(login) THEN RstDone(IdleRst, ErrorMiddleware(400, "Login jest wymagany"))
       ELSE [IdleRst EXCEPT !.pc = "getUserByLogin", !.login = login]]
  /\ UNCHANGED <<now, ticks, users, loginAttempts, req, auth, jar, passwordResetTokens, minted, probe, cfm, pwChanges, reg, pat, files, passwords, pwIds, pwr, loginEntries, trustedDevices>>

\* lines 247-253: getUserByLogin has answered; for an account the token is
\* drawn and saveResetToken takes its expiresAt.  prior is history: the
\* tokens the account has in the table as saveResetToken is entered.
ResetGetUser(s) ==
  /\ rst[s].pc = "getUserByLogin"
  /\ LET u == getUserByLogin(users, rst[s].login)
     IN IF u = NoUser
        THEN /\ rst' = [rst EXCEPT ![s] = RstDone(@, GenericResetAnswer)]
             /\ minted' = minted
        ELSE /\ rst' = [rst EXCEPT ![s] =
                  [@ EXCEPT !.pc = "delete", !.user = u,
                            !.token = generateResetToken(minted),
                            !.expiresAt = now + ResetTokenLifetimeMs,
                            !.prior = {x.token : x \in {y \in passwordResetTokens : y.userId = u}}]]
             /\ minted' = minted + 1
  /\ UNCHANGED <<now, ticks, calls, users, loginAttempts, req, auth, jar, passwordResetTokens, probe, cfm, pwChanges, reg, pat, files, passwords, pwIds, pwr, loginEntries, trustedDevices>>

ResetDelete(s) ==
  /\ rst[s].pc = "delete"
  /\ passwordResetTokens' = deleteByUserId(passwordResetTokens, rst[s].user)
  /\ rst' = [rst EXCEPT ![s].pc = "insert"]
  /\ UNCHANGED <<now, ticks, calls, users, loginAttempts, req, auth, jar, minted, probe, cfm, pwChanges, reg, pat, files, passwords, pwIds, pwr, loginEntries, trustedDevices>>

ResetInsert(s) ==
  /\ rst[s].pc = "insert"
  /\ passwordResetTokens' = insertResetToken(passwordResetTokens,
       [id |-> rst[s].token, userId |-> rst[s].user, token |-> rst[s].token,
        expiresAt |-> rst[s].expiresAt])
  /\ rst' = [rst EXCEPT ![s].pc = "email"]
  /\ UNCHANGED <<now, ticks, calls, users, loginAttempts, req, auth, jar, minted, probe, cfm, pwChanges, reg, pat, files, passwords, pwIds, pwr, loginEntries, trustedDevices>>

\* the Error sendResetEmail throws when transporter.sendMail rejects
EmailFailure == "Nie udalo sie wyslac e-maila resetujacego haslo"

\* lines 254-259: sendResetEmail resolves (sent) or throws
ResetEmail(s, sent) ==
  /\ rst[s].pc = "email"
  /\ rst' = [rst EXCEPT ![s] =
       IF sent THEN RstDone(@, GenericResetAnswer)
       ELSE RstDone(@, ErrorMiddleware(0, EmailFailure))]
  /\ UNCHANGED <<now, ticks, calls, users, loginAttempts, req, auth, jar, passwordResetTokens, minted, probe, cfm, pwChanges, reg, pat, files, passwords, pwIds, pwr, loginEntries, trustedDevices>>

\* a caller of the exported queries.  probe is the last call and what it
\* returned; prev is what the call before it returned when that was the
\* same query on the same token
NoProbe == [fn |-> "none", token |-> NoResetToken, result |-> "none", prev |-> "none"]

Probed(fn, resetToken, result) ==
  [fn |-> fn, token |-> resetToken, result |-> result,
   prev |-> IF probe.fn = fn /\ probe.token = resetToken THEN probe.result ELSE "none"]

CallVerifyResetToken(resetToken) ==
  /\ probe' = Probed("verifyResetToken", resetToken,
                     verifyResetToken(passwordResetTokens, users, resetToken, now))
  /\ UNCHANGED <<now, ticks, calls, users, loginAttempts, req, auth, jar, passwordResetTokens, rst, minted, cfm, pwChanges, reg, pat, files, passwords, pwIds, pwr, loginEntries, trustedDevices>>

CallDeleteResetToken(resetToken) ==
  /\ LET out == deleteResetToken(passwordResetTokens, resetToken)
     IN /\ passwordResetTokens' = out.rows
        /\ probe' = Probed("deleteResetToken", resetToken,
                           IF out.deleted THEN "true" ELSE "false")
  /\ UNCHANGED <<now, ticks, calls, users, loginAttempts, req, auth, jar, rst, minted, cfm, pwChanges, reg, pat, files, passwords, pwIds, pwr, loginEntries, trustedDevices>>

(***************************************************************************)
(* POST /users/reset-password/confirm                                      *)
(***************************************************************************)
\* updateUser: only the truthy fields are set; the password is stored as
\* its digest; the where clause matches no row for an unknown id
updateUser(tbl, id, login, password) ==
  IF id \notin DOMAIN tbl THEN tbl
  ELSE [tbl EXCEPT ![id] =
          [login |-> IF Falsy(login) THEN @.login ELSE login,
           password |-> IF Falsy(password) THEN @.password ELSE Sha256(password)]]

CfmSlots == {1, 2}
\* the reset tokens a confirm request can carry: 0 was never issued
ResetTokens == {0, 1, 2}

IdleCfm ==
  [pc |-> "idle", resetToken |-> NoResetToken, newPassword |-> "", currentTime |-> NoTime,
   userId |-> NoUser, user |-> NoUser, res |-> NoRes]

\* an answered request keeps the token it carried and its response
CfmDone(q, res) == [IdleCfm EXCEPT !.pc = "done", !.resetToken = q.resetToken, !.res = res]

\* lines 268-274: the body is checked, verifyResetToken takes currentTime
ConfirmStart(c, body) ==
  /\ cfm[c].pc \in {"idle", "done"}
  /\ \A o \in CfmSlots : o < c => cfm[o].pc \notin {"idle", "done"}
  /\ calls < MaxCalls
  /\ calls' = calls + 1
  /\ cfm' = [cfm EXCEPT ![c] =
       IF body.resetToken = NoResetToken \/ Falsy(body.newPassword)
       THEN CfmDone(IdleCfm, ErrorMiddleware(400, "Token resetu i nowe haslo sa wymagane"))
       ELSE [IdleCfm EXCEPT !.pc = "selectToken", !.resetToken = body.resetToken,
                            !.newPassword = body.newPassword, !.currentTime = now]]
  /\ UNCHANGED <<now, ticks, users, loginAttempts, req, auth, jar, passwordResetTokens, rst, minted, probe, pwChanges, reg, pat, files, passwords, pwIds, pwr, loginEntries, trustedDevices>>

\* verifyResetToken, lines 265-278 of the queries: the token's row is
\* selected and its expiresAt compared with currentTime
ConfirmSelectToken(c) ==
  /\ cfm[c].pc = "selectToken"
  /\ LET found == {x \in passwordResetTokens : x.token = cfm[c].resetToken}
     IN cfm' = [cfm EXCEPT ![c] =
          IF found = {} \/ (CHOOSE x \in found : TRUE).expiresAt < @.currentTime
          THEN CfmDone(@, ErrorMiddleware(401, "Nieprawidlowy lub wygasly token resetu"))
          ELSE [@ EXCEPT !.pc = "selectUser", !.userId = (CHOOSE x \in found : TRUE).userId]]
  /\ UNCHANGED <<now, ticks, calls, users, loginAttempts, req, auth, jar, passwordResetTokens, rst, minted, probe, pwChanges, reg, pat, files, passwords, pwIds, pwr, loginEntries, trustedDevices>>

\* verifyResetToken, lines 280-286 of the queries, and line 275 of the route
ConfirmSelectUser(c) ==
  /\ cfm[c].pc = "selectUser"
  /\ LET user == getUserById(users, cfm[c].userId)
     IN cfm' = [cfm EXCEPT ![c] =
          IF user = NoUser
          THEN CfmDone(@, ErrorMiddleware(401, "Nieprawidlowy lub wygasly token resetu"))
          ELSE [@ EXCEPT !.pc = "updateUser", !.user = user]]
  /\ UNCHANGED <<now, ticks, calls, users, loginAttempts, req, auth, jar, passwordResetTokens, rst, minted, probe, pwChanges, reg, pat, files, passwords, pwIds, pwr, loginEntries, trustedDevices>>

\* line 279: updateUser(user.id, { password: newPassword }).  pwChanges is
\* history: the number of password changes each token has authorized.
ConfirmUpdateUser(c) ==
  /\ cfm[c].pc = "updateUser"
  /\ users' = updateUser(users, cfm[c].user, Undefined, cfm[c].newPassword)
  /\ pwChanges' = [pwChanges EXCEPT ![cfm[c].resetToken] = @ + 1]
  /\ cfm' = [cfm EXCEPT ![c].pc = "deleteResetToken"]
  /\ UNCHANGED <<now, ticks, calls, loginAttempts, req, auth, jar, passwordResetTokens, rst, minted, probe, reg, pat, files, passwords, pwIds, pwr, loginEntries, trustedDevices>>

\* lines 280-281: the token is deleted, whatever deleteResetToken returns
\* the answer is 200
ConfirmDeleteToken(c) ==
  /\ cfm[c].pc = "deleteResetToken"
  /\ passwordResetTokens' = deleteResetToken(passwordResetTokens, cfm[c].resetToken).rows
  /\ cfm' = [cfm EXCEPT ![c] = CfmDone(@, Res(200, "Haslo zostalo pomyslnie zmienione"))]
  /\ UNCHANGED <<now, ticks, calls, users, loginAttempts, req, auth, jar, rst, minted, probe, pwChanges, reg, pat, files, passwords, pwIds, pwr, loginEntries, trustedDevices>>

(***************************************************************************)
(* POST /users and PATCH /users/:user_id: routes/users.js                  *)
(***************************************************************************)
\* the ids crypto.randomUUID gives the accounts that are created: the n-th
\* row of the table gets the n-th of them, no two are equal
NewUserIds == <<"u3", "u4", "u5", "u6">>
randomUserId(tbl) == NewUserIds[Cardinality(DOMAIN tbl) - Cardinality(UserIds) + 1]

\* the users table refuses a second row with a login it already holds
UsersLoginConflict(tbl, login) == \E u \in DOMAIN tbl : tbl[u].login = login

\* a createUser whose insert the table never refuses
createUserNoConstraint(tbl, login, password) ==
  LET id == randomUserId(tbl)
  IN [users |-> [u \in DOMAIN tbl \cup {id} |->
                   IF u = id THEN [login |-> login, password |-> Sha256(password)]
                   ELSE tbl[u]],
      id |-> id]

\* createUser: one insert of the row with the password's digest; the
\* insert throws, and writes nothing, when the table refuses the row
createUser(tbl, login, password) ==
  IF UsersLoginConflict(tbl, login)
  THEN [users |-> tbl, id |-> NoUser]
  ELSE LET id == randomUserId(tbl)
       IN [users |-> [u \in DOMAIN tbl \cup {id} |->
                        IF u = id THEN [login |-> login, password |-> Sha256(password)]
                        ELSE tbl[u]],
           id |-> id]

\* a user's directory files/<id>: no file
NoFiles == << >>

\* validateUser: every field is optional; a login that trims to "" and a
\* password that is not strong are refused
WeakPassword == "slabe"
LoginMessage == "Login field cannot be empty and must not exceed 50 characters"
PasswordMessage == "Password field must be at least 8 characters long"
ValidationErrors(body) ==
  LET badLogin == body.login # Undefined /\ Trim(body.login) = ""
      badPassword == body.password = WeakPassword
  IN IF badLogin /\ badPassword THEN "Login field cannot be empty and must not exceed 50 characters,Password field must be at least 8 characters long"
     ELSE IF badLogin THEN LoginMessage
     ELSE IF badPassword THEN PasswordMessage
     ELSE ""

NoBody == [first_name |-> Undefined, login |-> Undefined, password |-> Undefined]
IdleReg == [pc |-> "idle", body |-> NoBody, res |-> NoRes]

\* POST /users, lines 90-104: a body that passes validation reaches the
\* test of line 103, which reads first_name, a name the handler does not
\* declare (the field was destructured as firstName): ReferenceError
Register(body) ==
  /\ calls < MaxCalls
  /\ calls' = calls + 1
  /\ reg' = [pc |-> "done", body |-> body,
             res |-> IF ValidationErrors(body) # ""
                     THEN ErrorMiddleware(400, ValidationErrors(body))
                     ELSE ErrorMiddleware(0, "first_name is not defined")]
  /\ UNCHANGED <<now, ticks, users, loginAttempts, req, auth, jar, passwordResetTokens, rst, minted, probe, cfm, pwChanges, pat, files, passwords, pwIds, pwr, loginEntries, trustedDevices>>

\* a caller of the exported createUser
CallCreateUser(login, password) ==
  /\ calls < MaxCalls
  /\ calls' = calls + 1
  /\ LET out == createUser(users, login, password)
     IN /\ users' = out.users
        /\ probe' = [fn |-> "createUser", token |-> NoResetToken,
                     result |-> IF out.id = NoUser THEN "throws" ELSE out.id,
                     prev |-> "none"]
  /\ UNCHANGED <<now, ticks, loginAttempts, req, auth, jar, passwordResetTokens, rst, minted, cfm, pwChanges, reg, pat, files, passwords, pwIds, pwr, loginEntries, trustedDevices>>

\* the request of the users router that is in flight: its route, who asks
\* (req.user.id), the :user_id of the path and the body
NoEntry == [login |-> Undefined, page |-> Undefined]
NoDevice == [deviceId |-> "none", isTrusted |-> FALSE]
IdlePat ==
  [pc |-> "idle", route |-> "none", caller |-> NoUser, userId |-> NoUser, body |-> NoBody,
   entry |-> NoEntry, device |-> NoDevice, res |-> NoRes]

\* an answered request keeps its route, who asked for whose records and
\* the response
PatDone(q, res) ==
  [IdlePat EXCEPT !.pc = "done", !.route = q.route, !.caller = q.caller,
                  !.userId = q.userId, !.res = res]

\* a route that does not compare :user_id with req.user.id
PatchStartNoOwnershipCheck(caller, userId, body) ==
  /\ pat.pc \in {"idle", "done"}
  /\ calls < MaxCalls
  /\ calls' = calls + 1
  /\ LET q == [IdlePat EXCEPT !.route = "patch", !.caller = caller, !.userId = userId]
     IN pat' =
          IF ValidationErrors(body) # ""
          THEN PatDone(q, ErrorMiddleware(400, ValidationErrors(body)))
          ELSE [q EXCEPT !.pc = "updateUser", !.body = body]
  /\ UNCHANGED <<now, ticks, users, loginAttempts, req, auth, jar, passwordResetTokens, rst, minted, probe, cfm, pwChanges, reg, files, passwords, pwIds, pwr, loginEntries, trustedDevices>>

\* PATCH /users/:user_id, lines 120-133, for the caller authenticateToken
\* has let through
PatchStart(caller, userId, body) ==
  /\ pat.pc \in {"idle", "done"}
  /\ calls < MaxCalls
  /\ calls' = calls + 1
  /\ LET q == [IdlePat EXCEPT !.route = "patch", !.caller = caller, !.userId = userId]
     IN pat' =
          IF userId # caller THEN PatDone(q, ErrorMiddleware(403, "Forbidden"))
          ELSE IF ValidationErrors(body) # ""
          THEN PatDone(q, ErrorMiddleware(400, ValidationErrors(body)))
          ELSE [q EXCEPT !.pc = "updateUser", !.body = body]
  /\ UNCHANGED <<now, ticks, users, loginAttempts, req, auth, jar, passwordResetTokens, rst, minted, probe, cfm, pwChanges, reg, files, passwords, pwIds, pwr, loginEntries, trustedDevices>>

\* line 133: updateUser with first_name, last_name and password only; with
\* no truthy field the update has no values to set and throws
PatchUpdateUser ==
  /\ pat.route = "patch" /\ pat.pc = "updateUser"
  /\ IF Falsy(pat.body.first_name) /\ Falsy(pat.body.password)
     THEN /\ pat' = PatDone(pat, ErrorMiddleware(0, "No values to set"))
          /\ users' = users
     ELSE /\ pat' = [pat EXCEPT !.pc = "getUserById"]
          /\ users' = updateUser(users, pat.userId, Undefined, pat.body.password)
  /\ UNCHANGED <<now, ticks, calls, loginAttempts, req, auth, jar, passwordResetTokens, rst, minted, probe, cfm, pwChanges, reg, files, passwords, pwIds, pwr, loginEntries, trustedDevices>>

\* lines 134-141
PatchGetUser ==
  /\ pat.route = "patch" /\ pat.pc = "getUserById"
  /\ pat' = PatDone(pat,
       IF getUserById(users, pat.userId) = NoUser THEN ErrorMiddleware(404, "User not found")
       ELSE Res(200, users[pat.userId].login))
  /\ UNCHANGED <<now, ticks, calls, users, loginAttempts, req, auth, jar, passwordResetTokens, rst, minted, probe, cfm, pwChanges, reg, files, passwords, pwIds, pwr, loginEntries, trustedDevices>>

\* GET /users/:user_id, lines 148-150
GetUserStart(caller, userId) ==
  /\ pat.pc \in {"idle", "done"}
  /\ calls < MaxCalls
  /\ calls' = calls + 1
  /\ LET q == [IdlePat EXCEPT !.route = "profile", !.caller = caller, !.userId = userId]
     IN pat' = IF userId # caller THEN PatDone(q, ErrorMiddleware(403, "Forbidden"))
               ELSE [q EXCEPT !.pc = "getUserById"]
  /\ UNCHANGED <<now, ticks, users, loginAttempts, req, auth, jar, passwordResetTokens, rst, minted, probe, cfm, pwChanges, reg, files, passwords, pwIds, pwr, loginEntries, trustedDevices>>

\* lines 150-157
GetUserSelect ==
  /\ pat.route = "profile" /\ pat.pc = "getUserById"
  /\ pat' = PatDone(pat,
       IF getUserById(users, pat.userId) = NoUser THEN ErrorMiddleware(404, "User not found")
       ELSE Res(200, users[pat.userId].login))
  /\ UNCHANGED <<now, ticks, calls, users, loginAttempts, req, auth, jar, passwordResetTokens, rst, minted, probe, cfm, pwChanges, reg, files, passwords, pwIds, pwr, loginEntries, trustedDevices>>

(***************************************************************************)
(* Login entries: config/db/queries/loginEntry.js and their routes         *)
(***************************************************************************)
\* getLoginEntriesByUserId: the rows of the user
getLoginEntriesByUserId(rows, userId) == SelectSeq(rows, LAMBDA r : r.userId = userId)

\* createLoginEntry: one insert, stamped with new Date()
createLoginEntry(rows, userId, login, page, timestamp) ==
  Append(rows, [userId |-> userId, login |-> login, page |-> page, timestamp |-> timestamp])

\* validateLogin: login and page trim to a non-empty string
LoginEntryErrors(entry) ==
  IF entry.login = Undefined \/ Trim(entry.login) = ""
  THEN "Login field cannot be empty and must not exceed 50 characters"
  ELSE IF entry.page = Undefined \/ Trim(entry.page) = ""
  THEN "Page field cannot be empty and must not exceed 50 characters"
  ELSE ""

\* GET /users/:user_id/logins, lines 169-171
GetLoginsStart(caller, userId) ==
  /\ pat.pc \in {"idle", "done"}
  /\ calls < MaxCalls
  /\ calls' = calls + 1
  /\ LET q == [IdlePat EXCEPT !.route = "logins", !.caller = caller, !.userId = userId]
     IN pat' = IF userId # caller THEN PatDone(q, ErrorMiddleware(403, "Forbidden"))
               ELSE [q EXCEPT !.pc = "getUserById"]
  /\ UNCHANGED <<now, ticks, users, loginAttempts, req, auth, jar, passwordResetTokens, rst, minted, probe, cfm, pwChanges, reg, files, passwords, pwIds, pwr, loginEntries, trustedDevices>>

\* lines 171-173
GetLoginsGetUser ==
  /\ pat.route = "logins" /\ pat.pc = "getUserById"
  /\ pat' = IF getUserById(users, pat.userId) = NoUser
            THEN PatDone(pat, ErrorMiddleware(404, "User not found"))
            ELSE [pat EXCEPT !.pc = "getLoginEntries"]
  /\ UNCHANGED <<now, ticks, calls, users, loginAttempts, req, auth, jar, passwordResetTokens, rst, minted, probe, cfm, pwChanges, reg, files, passwords, pwIds, pwr, loginEntries, trustedDevices>>

\* lines 173-174: the response is the list of the rows
GetLoginsSelect ==
  /\ pat.route = "logins" /\ pat.pc = "getLoginEntries"
  /\ pat' = PatDone([pat EXCEPT !.entry =
                 IF getLoginEntriesByUserId(loginEntries, pat.userId) = << >> THEN NoEntry
                 ELSE LET r == getLoginEntriesByUserId(loginEntries, pat.userId)[1]
                      IN [login |-> r.login, page |-> r.page]],
               Res(200, "loginEntries"))
  /\ UNCHANGED <<now, ticks, calls, users, loginAttempts, req, auth, jar, passwordResetTokens, rst, minted, probe, cfm, pwChanges, reg, files, passwords, pwIds, pwr, loginEntries, trustedDevices>>

\* POST /users/:user_id/logins, lines 182-192: the validation result is
\* looked at before the owner
CreateLoginStart(caller, userId, entry) ==
  /\ pat.pc \in {"idle", "done"}
  /\ calls < MaxCalls
  /\ calls' = calls + 1
  /\ LET q == [IdlePat EXCEPT !.route = "createLogin", !.caller = caller, !.userId = userId]
     IN pat' = IF LoginEntryErrors(entry) # "" THEN PatDone(q, ErrorMiddleware(400, LoginEntryErrors(entry)))
               ELSE IF userId # caller THEN PatDone(q, ErrorMiddleware(403, "Forbidden"))
               ELSE [q EXCEPT !.pc = "createLoginEntry", !.entry = entry]
  /\ UNCHANGED <<now, ticks, users, loginAttempts, req, auth, jar, passwordResetTokens, rst, minted, probe, cfm, pwChanges, reg, files, passwords, pwIds, pwr, loginEntries, trustedDevices>>

\* lines 192-193
CreateLoginInsert ==
  /\ pat.route = "createLogin" /\ pat.pc = "createLoginEntry"
  /\ loginEntries' = createLoginEntry(loginEntries, pat.userId, pat.entry.login, pat.entry.page, now)
  /\ pat' = PatDone(pat, Res(201, "created"))
  /\ UNCHANGED <<now, ticks, calls, users, loginAttempts, req, auth, jar, passwordResetTokens, rst, minted, probe, cfm, pwChanges, reg, files, passwords, pwIds, pwr, trustedDevices>>

(***************************************************************************)
(* Trusted devices: config/db/queries/trustedDevice.js and their routes    *)
(***************************************************************************)
\* getTrustedDevicesByUserId: the rows of the user
getTrustedDevicesByUserId(rows, userId) == {r \in rows : r.userId = userId}

\* upsertTrustedDevice, the select: the rows of the user's device
selectTrustedDevice(rows, userId, deviceId) ==
  {r \in rows : r.userId = userId /\ r.deviceId = deviceId}

\* upsertTrustedDevice, the write: an update of the rows of the device when
\* the select found one, else an insert
writeTrustedDevice(rows, existing, userId, deviceId, isTrusted) ==
  LET row == [userId |-> userId, deviceId |-> deviceId, isTrusted |-> isTrusted]
  IN IF existing
     THEN {IF r.userId = userId /\ r.deviceId = deviceId THEN row ELSE r : r \in rows}
     ELSE rows \cup {row}

\* deleteTrustedDevice: delete ... returning; the result is the array of
\* the deleted rows
deleteTrustedDevice(rows, userId, deviceId) ==
  [rows |-> {r \in rows : ~ (r.userId = userId /\ r.deviceId = deviceId)},
   result |-> {r \in rows : r.userId = userId /\ r.deviceId = deviceId}]

\* GET /users/:user_id/trusted-devices, lines 201-203
GetDevicesStart(caller, userId) ==
  /\ pat.pc \in {"idle", "done"}
  /\ calls < MaxCalls
  /\ calls' = calls + 1
  /\ LET q == [IdlePat EXCEPT !.route = "devices", !.caller = caller, !.userId = userId]
     IN pat' = IF userId # caller THEN PatDone(q, ErrorMiddleware(403, "Forbidden"))
               ELSE [q EXCEPT !.pc = "getTrustedDevices"]
  /\ UNCHANGED <<now, ticks, users, loginAttempts, req, auth, jar, passwordResetTokens, rst, minted, probe, cfm, pwChanges, reg, files, passwords, pwIds, pwr, loginEntries, trustedDevices>>

\* lines 203-204: the response is the list of the rows
GetDevicesSelect ==
  /\ pat.route = "devices" /\ pat.pc = "getTrustedDevices"
  /\ pat' = PatDone([pat EXCEPT !.device =
                 IF getTrustedDevicesByUserId(trustedDevices, pat.userId) = {} THEN NoDevice
                 ELSE LET r == CHOOSE x \in getTrustedDevicesByUserId(trustedDevices, pat.userId) : TRUE
                      IN [deviceId |-> r.deviceId, isTrusted |-> r.isTrusted]],
               Res(200, "devices"))
  /\ UNCHANGED <<now, ticks, calls, users, loginAttempts, req, auth, jar, passwordResetTokens, rst, minted, probe, cfm, pwChanges, reg, files, passwords, pwIds, pwr, loginEntries, trustedDevices>>

\* PATCH /users/:user_id/trusted-devices, lines 212-219
UpsertDeviceStart(caller, userId, device) ==
  /\ pat.pc \in {"idle", "done"}
  /\ calls < MaxCalls
  /\ calls' = calls + 1
  /\ LET q == [IdlePat EXCEPT !.route = "upsertDevice", !.caller = caller, !.userId = userId]
     IN pat' = IF userId # caller THEN PatDone(q, ErrorMiddleware(403, "Forbidden"))
               ELSE [q EXCEPT !.pc = "selectDevice", !.device = device]
  /\ UNCHANGED <<now, ticks, users, loginAttempts, req, auth, jar, passwordResetTokens, rst, minted, probe, cfm, pwChanges, reg, files, passwords, pwIds, pwr, loginEntries, trustedDevices>>

\* upsertTrustedDevice: its select has answered
UpsertDeviceSelect ==
  /\ pat.route = "upsertDevice" /\ pat.pc = "selectDevice"
  /\ pat' = [pat EXCEPT !.pc =
       IF selectTrustedDevice(trustedDevices, pat.userId, pat.device.deviceId) # {}
       THEN "updateDevice" ELSE "insertDevice"]
  /\ UNCHANGED <<now, ticks, calls, users, loginAttempts, req, auth, jar, passwordResetTokens, rst, minted, probe, cfm, pwChanges, reg, files, passwords, pwIds, pwr, loginEntries, trustedDevices>>

\* upsertTrustedDevice: its update or insert, and line 220
UpsertDeviceWrite ==
  /\ pat.route = "upsertDevice" /\ pat.pc \in {"updateDevice", "insertDevice"}
  /\ trustedDevices' = writeTrustedDevice(trustedDevices, pat.pc = "updateDevice", pat.userId,
                                          pat.device.deviceId, pat.device.isTrusted)
  /\ pat' = PatDone(pat, Res(200, "device"))
  /\ UNCHANGED <<now, ticks, calls, users, loginAttempts, req, auth, jar, passwordResetTokens, rst, minted, probe, cfm, pwChanges, reg, files, passwords, pwIds, pwr, loginEntries>>

\* !result for the array a query returns: an array is truthy, the empty
\* one too
NotArray(result) == FALSE

\* DELETE /users/:user_id/trusted-devices/:device_id, lines 228-230
RemoveDeviceStart(caller, userId, deviceId) ==
  /\ pat.pc \in {"idle", "done"}
  /\ calls < MaxCalls
  /\ calls' = calls + 1
  /\ LET q == [IdlePat EXCEPT !.route = "removeDevice", !.caller = caller, !.userId = userId]
     IN pat' = IF userId # caller THEN PatDone(q, ErrorMiddleware(403, "Forbidden"))
               ELSE [q EXCEPT !.pc = "deleteTrustedDevice", !.device = [NoDevice EXCEPT !.deviceId = deviceId]]
  /\ UNCHANGED <<now, ticks, users, loginAttempts, req, auth, jar, passwordResetTokens, rst, minted, probe, cfm, pwChanges, reg, files, passwords, pwIds, pwr, loginEntries, trustedDevices>>

\* lines 230-232: result is an array, and !result is false for every
\* array, the empty one too
RemoveDeviceDelete ==
  /\ pat.route = "removeDevice" /\ pat.pc = "deleteTrustedDevice"
  /\ LET out == deleteTrustedDevice(trustedDevices, pat.userId, pat.device.deviceId)
     IN /\ trustedDevices' = out.rows
        /\ pat' = PatDone(pat, IF NotArray(out.result) THEN ErrorMiddleware(404, "Device not found")
                                ELSE Res(200, "Device removed from trusted devices"))
  /\ UNCHANGED <<now, ticks, calls, users, loginAttempts, req, auth, jar, passwordResetTokens, rst, minted, probe, cfm, pwChanges, reg, files, passwords, pwIds, pwr, loginEntries>>

(***************************************************************************)
(* The credential store: config/db/queries/password.js, utils/fileHandler  *)
(***************************************************************************)
\* the ids crypto.randomUUID gives the credential records, in the order
\* they are drawn
\* the last two are version 4 UUIDs whose digests begin with the same 8
\* hex characters
PasswordIds ==
  <<"p1", "p2", "p3", "p4",
    "06074b27-1c01-4c97-bcfd-42012614223b", "abd54c1b-9766-4545-aa9a-2ac557042d03">>
randomPasswordId(n) == PasswordIds[n + 1]

\* crypto.createHash("sha256").update(passwordId).digest("hex"): the 64
\* hex characters of the digest of each id of the model
Sha256Hex ==
  "p1" :> <<"f", "6", "4", "5", "5", "1", "f", "c", "d", "6", "f", "0", "7", "8", "2", "3", "c", "b", "8", "7", "9", "7", "1", "c", "f", "b", "9", "1", "4", "4", "6", "4", "2", "5", "d", "a", "1", "8", "2", "8", "6", "b", "3", "a", "b", "1", "e", "f", "9", "3", "5", "e", "0", "c", "b", "d", "7", "a", "6", "9", "f", "6", "8", "a">> @@
  "p2" :> <<"3", "9", "4", "6", "c", "a", "6", "4", "f", "f", "7", "8", "d", "9", "3", "c", "a", "6", "1", "0", "9", "0", "a", "4", "3", "7", "c", "b", "b", "6", "b", "3", "d", "2", "c", "a", "0", "d", "4", "8", "8", "f", "5", "f", "9", "c", "c", "f", "3", "0", "5", "9", "6", "0", "8", "3", "6", "8", "b", "2", "7", "6", "9", "3">> @@
  "p3" :> <<"4", "3", "b", "b", "0", "0", "d", "0", "c", "e", "7", "7", "9", "0", "a", "5", "3", "b", "9", "1", "2", "5", "6", "b", "3", "7", "0", "c", "8", "8", "7", "b", "2", "4", "7", "9", "1", "a", "5", "5", "3", "9", "a", "6", "f", "b", "f", "b", "7", "0", "c", "5", "8", "7", "0", "e", "8", "c", "9", "1", "a", "e", "5", "d">> @@
  "p4" :> <<"a", "b", "7", "1", "f", "c", "4", "c", "8", "a", "1", "c", "4", "d", "6", "2", "b", "9", "2", "0", "2", "b", "3", "6", "e", "e", "7", "c", "0", "7", "d", "d", "3", "9", "8", "a", "0", "9", "0", "7", "a", "3", "7", "0", "3", "7", "b", "d", "8", "c", "3", "9", "5", "9", "d", "6", "a", "f", "5", "7", "3", "6", "0", "8">> @@
  "06074b27-1c01-4c97-bcfd-42012614223b" :> <<"6", "a", "7", "1", "a", "5", "e", "f", "3", "5", "2", "1", "f", "4", "f", "3", "c", "b", "e", "b", "6", "8", "6", "b", "3", "7", "2", "0", "f", "5", "e", "3", "d", "0", "a", "f", "f", "7", "3", "0", "7", "4", "9", "1", "c", "5", "d", "6", "d", "6", "e", "7", "b", "9", "c", "e", "5", "3", "f", "5", "d", "0", "b", "3">> @@
  "abd54c1b-9766-4545-aa9a-2ac557042d03" :> <<"6", "a", "7", "1", "a", "5", "e", "f", "e", "d", "9", "0", "1", "9", "7", "4", "2", "9", "0", "9", "8", "2", "8", "5", "1", "6", "a", "b", "3", "b", "0", "0", "7", "4", "5", "4", "0", "6", "2", "8", "7", "5", "9", "e", "6", "7", "4", "a", "3", "1", "f", "3", "9", "d", "e", "c", "5", "5", "d", "d", "f", "3", "5", "f">>

\* String.prototype.slice(first, last)
Slice(str, first, last) == SubSeq(str, first + 1, last)

\* the filename each function of the file store computes for a record id
createPasswordFileName(passwordId) == Slice(Sha256Hex[passwordId], 0, 8) \o <<".txt">>
updatePasswordFileName(passwordId) == Slice(Sha256Hex[passwordId], 0, 8) \o <<".txt">>
\* a deletePasswordFile that keeps 16 characters of the digest
deletePasswordFileNameLong(passwordId) == Slice(Sha256Hex[passwordId], 0, 16) \o <<".txt">>
deletePasswordFileName(passwordId) == Slice(Sha256Hex[passwordId], 0, 8) \o <<".txt">>
getHash(passwordId) == Slice(Sha256Hex[passwordId], 0, 8) \o <<".txt">>

\* fs.mkdir(folderPath, { recursive: true }): the directory exists afterwards
mkdir(fs, userId) ==
  IF userId \in DOMAIN fs THEN fs
  ELSE [u \in DOMAIN fs \cup {userId} |-> IF u = userId THEN NoFiles ELSE fs[u]]

\* a writeFile that truncates the file and writes nothing
writeFileEmpty(fs, userId, filename, data) ==
  [fs EXCEPT ![userId] =
     [f \in DOMAIN @ \cup {filename} |-> IF f = filename THEN "" ELSE @[f]]]

\* fs.writeFile(path, data): the file holds data afterwards, whether or not
\* it existed
writeFile(fs, userId, filename, data) ==
  [fs EXCEPT ![userId] =
     [f \in DOMAIN @ \cup {filename} |-> IF f = filename THEN data ELSE @[f]]]

\* fs.access(path): does the file exist
access(fs, userId, filename) == userId \in DOMAIN fs /\ filename \in DOMAIN fs[userId]

\* fs.unlink(path): the file is removed; for a path that names no file it
\* rejects with ENOENT
unlink(fs, userId, filename) ==
  IF access(fs, userId, filename)
  THEN [fs |-> [fs EXCEPT ![userId] = [f \in DOMAIN @ \ {filename} |-> @[f]]], error |-> ""]
  ELSE [fs |-> fs, error |-> "ENOENT: no such file or directory, unlink"]

\* getPasswordByUserId: the rows of the user
getPasswordByUserId(rows, userId) == {r \in rows : r.userId = userId}

\* a lookup that compares the login with the platform column and the
\* platform with the login column
getPasswordByUserPlatformLoginSwapped(rows, userId, platform, login) ==
  {r \in rows : r.userId = userId /\ r.platform = login /\ r.login = platform}

\* getPasswordByUserPlatformLogin: the rows of the key
getPasswordByUserPlatformLogin(rows, userId, platform, login) ==
  {r \in rows : r.userId = userId /\ r.platform = platform /\ r.login = login}

\* the passwords table refuses a second row of one (userId, platform, login)
PasswordsConflict(rows, row) ==
  \E r \in rows : r.userId = row.userId /\ r.platform = row.platform /\ r.login = row.login

\* a createPassword whose insert the table never refuses
createPasswordNoConstraint(rows, id, platform, login, userId) ==
  [rows |-> rows \cup {[id |-> id, userId |-> userId, platform |-> platform, login |-> login]},
   id |-> id]

\* createPassword: one insert; it throws, and writes nothing, when the
\* table refuses the row
createPassword(rows, id, platform, login, userId) ==
  LET row == [id |-> id, userId |-> userId, platform |-> platform, login |-> login]
  IN IF PasswordsConflict(rows, row) THEN [rows |-> rows, id |-> "throws"]
     ELSE [rows |-> rows \cup {row}, id |-> id]

\* deletePassword: delete ... where userId, platform and login are equal
deletePassword(rows, userId, platform, login) ==
  {r \in rows : ~ (r.userId = userId /\ r.platform = platform /\ r.login = login)}

(***************************************************************************)
(* routes/passwords.js                                                     *)
(***************************************************************************)
PwSlots == {1, 2}
NoName == << >>
NoList == [isArray |-> FALSE, items |-> << >>]

IdlePw ==
  [pc |-> "idle", route |-> "none", caller |-> NoUser, userId |-> NoUser, platform |-> << >>, login |-> << >>,
   password |-> "", id |-> "none", filename |-> NoName, passwordsall |-> NoList,
   snapshot |-> {}, i |-> 0, res |-> NoRes]

\* an answered request keeps its route, who asked for whose records, its
\* response and the filename it was given
PwDone(q, res) ==
  [IdlePw EXCEPT !.pc = "done", !.route = q.route, !.caller = q.caller, !.userId = q.userId,
                 !.filename = q.filename, !.res = res]

\* /^[a-zA-Z0-9_-]+$/.test(userId)
MalformedUserId == "u!"
MatchesUserIdPattern(userId) == userId # MalformedUserId

PwFree(s) ==
  /\ pwr[s].pc \in {"idle", "done"}
  /\ \A o \in PwSlots : o < s => pwr[o].pc \notin {"idle", "done"}

\* validateLoginCredentials: platform, login and password trim to a
\* non-empty string
CredentialErrors(body) ==
  IF body.platform = << >> THEN "Platform field cannot be empty and must not exceed 50 characters"
  ELSE IF body.login = << >> THEN "Login field cannot be empty and must not exceed 50 characters"
  ELSE IF Trim(body.password) = "" THEN "Password field cannot be empty"
  ELSE ""

\* POST /passwords/:user_id/files, lines 109-120
SaveStart(s, caller, userId, body) ==
  /\ PwFree(s)
  /\ calls < MaxCalls
  /\ calls' = calls + 1
  /\ LET q == [IdlePw EXCEPT !.route = "save", !.caller = caller, !.userId = userId]
     IN pwr' = [pwr EXCEPT ![s] =
          IF ~ MatchesUserIdPattern(userId) THEN PwDone(q, ErrorMiddleware(400, "Invalid user ID"))
          ELSE IF userId # caller THEN PwDone(q, ErrorMiddleware(403, "Forbidden"))
          ELSE IF CredentialErrors(body) # "" THEN PwDone(q, ErrorMiddleware(400, CredentialErrors(body)))
          ELSE [q EXCEPT !.pc = "select", !.platform = body.platform,
                         !.login = body.login, !.password = body.password]]
  /\ UNCHANGED <<now, ticks, users, loginAttempts, req, auth, jar, passwordResetTokens, rst, minted, probe, cfm, pwChanges, reg, pat, files, passwords, pwIds, loginEntries, trustedDevices>>

\* lines 120-127: getPasswordByUserPlatformLogin has answered
SaveSelect(s) ==
  /\ pwr[s].route = "save" /\ pwr[s].pc = "select"
  /\ pwr' = [pwr EXCEPT ![s] =
       IF getPasswordByUserPlatformLogin(passwords, @.userId, @.platform, @.login) # {}
       THEN PwDone(@, ErrorMiddleware(400, "Login credentials already exist"))
       ELSE [@ EXCEPT !.pc = "createPassword"]]
  /\ UNCHANGED <<now, ticks, calls, users, loginAttempts, req, auth, jar, passwordResetTokens, rst, minted, probe, cfm, pwChanges, reg, pat, files, passwords, pwIds, loginEntries, trustedDevices>>

ConstraintViolation == "duplicate key value violates unique constraint"

\* lines 128-133: createPassword draws the id and inserts the record
SaveCreatePassword(s) ==
  /\ pwr[s].route = "save" /\ pwr[s].pc = "createPassword"
  /\ LET out == createPassword(passwords, randomPasswordId(pwIds), pwr[s].platform,
                               pwr[s].login, pwr[s].userId)
     IN /\ passwords' = out.rows
        /\ pwr' = [pwr EXCEPT ![s] =
             IF out.id = "throws" THEN PwDone(@, ErrorMiddleware(0, ConstraintViolation))
             ELSE [@ EXCEPT !.pc = "mkdir", !.id = out.id]]
  /\ pwIds' = pwIds + 1
  /\ UNCHANGED <<now, ticks, calls, users, loginAttempts, req, auth, jar, passwordResetTokens, rst, minted, probe, cfm, pwChanges, reg, pat, files, loginEntries, trustedDevices>>

\* createPasswordFile, lines 21-27 of the file store
SaveMkdir(s) ==
  /\ pwr[s].route = "save" /\ pwr[s].pc = "mkdir"
  /\ files' = mkdir(files, pwr[s].userId)
  /\ pwr' = [pwr EXCEPT ![s].pc = "writeFile"]
  /\ UNCHANGED <<now, ticks, calls, users, loginAttempts, req, auth, jar, passwordResetTokens, rst, minted, probe, cfm, pwChanges, reg, pat, passwords, pwIds, loginEntries, trustedDevices>>

\* a route that names the file after the login of the credential
SaveWriteFileByLogin(s) ==
  /\ pwr[s].route = "save" /\ pwr[s].pc = "writeFile"
  /\ LET filename == pwr[s].login \o <<".txt">>
     IN /\ files' = writeFile(files, pwr[s].userId, filename, pwr[s].password)
        /\ pwr' = [pwr EXCEPT ![s] = PwDone([@ EXCEPT !.filename = filename], Res(201, "created"))]
  /\ UNCHANGED <<now, ticks, calls, users, loginAttempts, req, auth, jar, passwordResetTokens, rst, minted, probe, cfm, pwChanges, reg, pat, passwords, pwIds, loginEntries, trustedDevices>>

\* createPasswordFile, lines 28-29, and line 135 of the route
SaveWriteFile(s) ==
  /\ pwr[s].route = "save" /\ pwr[s].pc = "writeFile"
  /\ LET filename == createPasswordFileName(pwr[s].id)
     IN /\ files' = writeFile(files, pwr[s].userId, filename, pwr[s].password)
        /\ pwr' = [pwr EXCEPT ![s] = PwDone([@ EXCEPT !.filename = filename], Res(201, "created"))]
  /\ UNCHANGED <<now, ticks, calls, users, loginAttempts, req, auth, jar, passwordResetTokens, rst, minted, probe, cfm, pwChanges, reg, pat, passwords, pwIds, loginEntries, trustedDevices>>

\* the Error fs.writeFile rejects with when the volume is full
WriteFailure == "ENOSPC: no space left on device, write"

\* createPasswordFile, line 28: fs.writeFile rejects; nothing catches it and
\* the handler is left through the error middleware
SaveWriteFileFails(s) ==
  /\ pwr[s].route = "save" /\ pwr[s].pc = "writeFile"
  /\ pwr' = [pwr EXCEPT ![s] = PwDone(@, ErrorMiddleware(0, WriteFailure))]
  /\ UNCHANGED <<now, ticks, calls, users, loginAttempts, req, auth, jar, passwordResetTokens, rst, minted, probe, cfm, pwChanges, reg, pat, files, passwords, pwIds, loginEntries, trustedDevices>>

\* PUT /passwords/:user_id/passwords/:platform/:login, lines 163-173
UpdateStart(s, caller, userId, platform, login, new_password) ==
  /\ PwFree(s)
  /\ calls < MaxCalls
  /\ calls' = calls + 1
  /\ LET q == [IdlePw EXCEPT !.route = "update", !.caller = caller, !.userId = userId]
     IN pwr' = [pwr EXCEPT ![s] =
          IF ~ MatchesUserIdPattern(userId) THEN PwDone(q, ErrorMiddleware(400, "Invalid user ID"))
          ELSE IF userId # caller THEN PwDone(q, ErrorMiddleware(403, "Forbidden"))
          ELSE IF new_password = Undefined \/ Trim(new_password) = ""
          THEN PwDone(q, ErrorMiddleware(400, "New password field cannot be empty"))
          ELSE [q EXCEPT !.pc = "select", !.platform = platform,
                         !.login = login, !.password = new_password]]
  /\ UNCHANGED <<now, ticks, users, loginAttempts, req, auth, jar, passwordResetTokens, rst, minted, probe, cfm, pwChanges, reg, pat, files, passwords, pwIds, loginEntries, trustedDevices>>

\* lines 173-178
UpdateSelect(s) ==
  /\ pwr[s].route = "update" /\ pwr[s].pc = "select"
  /\ LET found == getPasswordByUserPlatformLogin(passwords, pwr[s].userId, pwr[s].platform, pwr[s].login)
     IN pwr' = [pwr EXCEPT ![s] =
          IF found = {} THEN PwDone(@, ErrorMiddleware(404, "Password not found"))
          ELSE [@ EXCEPT !.pc = "mkdir", !.id = (CHOOSE r \in found : TRUE).id]]
  /\ UNCHANGED <<now, ticks, calls, users, loginAttempts, req, auth, jar, passwordResetTokens, rst, minted, probe, cfm, pwChanges, reg, pat, files, passwords, pwIds, loginEntries, trustedDevices>>

\* updatePasswordFile, lines 41-49 of the file store
UpdateMkdir(s) ==
  /\ pwr[s].route = "update" /\ pwr[s].pc = "mkdir"
  /\ files' = mkdir(files, pwr[s].userId)
  /\ pwr' = [pwr EXCEPT ![s].pc = "writeFile"]
  /\ UNCHANGED <<now, ticks, calls, users, loginAttempts, req, auth, jar, passwordResetTokens, rst, minted, probe, cfm, pwChanges, reg, pat, passwords, pwIds, loginEntries, trustedDevices>>

\* updatePasswordFile, lines 50-51, and lines 184-191 of the route
UpdateWriteFile(s) ==
  /\ pwr[s].route = "update" /\ pwr[s].pc = "writeFile"
  /\ LET newFilename == updatePasswordFileName(pwr[s].id)
     IN /\ files' = writeFile(files, pwr[s].userId, newFilename, pwr[s].password)
        /\ pwr' = [pwr EXCEPT ![s] = PwDone([@ EXCEPT !.filename = newFilename], Res(200, "updated"))]
  /\ UNCHANGED <<now, ticks, calls, users, loginAttempts, req, auth, jar, passwordResetTokens, rst, minted, probe, cfm, pwChanges, reg, pat, passwords, pwIds, loginEntries, trustedDevices>>

\* `${platform}/${login}`
Key(platform, login) == platform \o <<"/">> \o login

\* lines 270-279: the two key sets have one size and every existing key is
\* an input key
AllAccountsListed(existing, items) ==
  LET existingKeys == {Key(e.platform, e.login) : e \in existing}
      inputKeys == {Key(items[k].platform, items[k].login) : k \in DOMAIN items}
  IN /\ Cardinality(existingKeys) = Cardinality(inputKeys)
     /\ \A k \in existingKeys : k \in inputKeys

\* lines 283-298: the entries without a record are skipped; past the last
\* entry the answer is sent
BulkAdvance(q, i) ==
  LET rest == {k \in i..Len(q.passwordsall.items) :
                 \E e \in q.snapshot : /\ e.platform = q.passwordsall.items[k].platform
                                       /\ e.login = q.passwordsall.items[k].login}
  IN IF rest = {} THEN PwDone(q, Res(200, "updatedEntries"))
     ELSE LET k == CHOOSE x \in rest : \A y \in rest : x <= y
              entry == CHOOSE e \in q.snapshot : /\ e.platform = q.passwordsall.items[k].platform
                                                 /\ e.login = q.passwordsall.items[k].login
          IN [q EXCEPT !.pc = "mkdir", !.i = k, !.id = entry.id,
                       !.password = q.passwordsall.items[k].new_password]

\* PUT /passwords/:user_id/passwords, lines 248-252
BulkStart(s, caller, userId, passwordsall) ==
  /\ PwFree(s)
  /\ calls < MaxCalls
  /\ calls' = calls + 1
  /\ LET q == [IdlePw EXCEPT !.route = "bulk", !.caller = caller, !.userId = userId]
     IN pwr' = [pwr EXCEPT ![s] =
          IF ~ MatchesUserIdPattern(userId) THEN PwDone(q, ErrorMiddleware(400, "Invalid user ID"))
          ELSE IF userId # caller THEN PwDone(q, ErrorMiddleware(403, "Forbidden"))
          ELSE [q EXCEPT !.pc = "select", !.passwordsall = passwordsall]]
  /\ UNCHANGED <<now, ticks, users, loginAttempts, req, auth, jar, passwordResetTokens, rst, minted, probe, cfm, pwChanges, reg, pat, files, passwords, pwIds, loginEntries, trustedDevices>>

\* lines 252-282: getPasswordByUserId has answered; the body is checked
BulkSelect(s) ==
  /\ pwr[s].route = "bulk" /\ pwr[s].pc = "select"
  /\ LET existing == getPasswordByUserId(passwords, pwr[s].userId)
         items == pwr[s].passwordsall.items
     IN pwr' = [pwr EXCEPT ![s] =
          IF existing = {} THEN PwDone(@, ErrorMiddleware(404, "No passwords found"))
          ELSE IF ~ @.passwordsall.isArray
          THEN PwDone(@, ErrorMiddleware(400, "passwordsall must be an array"))
          ELSE IF \E k \in DOMAIN items : ~ items[k].wellFormed
          THEN PwDone(@, ErrorMiddleware(400, "Invalid password data format"))
          ELSE IF ~ AllAccountsListed(existing, items)
          THEN PwDone(@, ErrorMiddleware(400, "All accounts must be updated"))
          ELSE BulkAdvance([@ EXCEPT !.snapshot = existing], 1)]
  /\ UNCHANGED <<now, ticks, calls, users, loginAttempts, req, auth, jar, passwordResetTokens, rst, minted, probe, cfm, pwChanges, reg, pat, files, passwords, pwIds, loginEntries, trustedDevices>>

\* updatePasswordFile, lines 41-49 of the file store
BulkMkdir(s) ==
  /\ pwr[s].route = "bulk" /\ pwr[s].pc = "mkdir"
  /\ files' = mkdir(files, pwr[s].userId)
  /\ pwr' = [pwr EXCEPT ![s].pc = "writeFile"]
  /\ UNCHANGED <<now, ticks, calls, users, loginAttempts, req, auth, jar, passwordResetTokens, rst, minted, probe, cfm, pwChanges, reg, pat, passwords, pwIds, loginEntries, trustedDevices>>

\* updatePasswordFile, lines 50-51: fs.writeFile throws TypeError for data
\* that is undefined; after a write the loop goes on
BulkWriteFile(s) ==
  /\ pwr[s].route = "bulk" /\ pwr[s].pc = "writeFile"
  /\ IF pwr[s].password = Undefined
     THEN /\ files' = files
          /\ pwr' = [pwr EXCEPT ![s] = PwDone(@, ErrorMiddleware(0, "The \"data\" argument must be of type string"))]
     ELSE /\ files' = writeFile(files, pwr[s].userId, updatePasswordFileName(pwr[s].id), pwr[s].password)
          /\ pwr' = [pwr EXCEPT ![s] = BulkAdvance(@, @.i + 1)]
  /\ UNCHANGED <<now, ticks, calls, users, loginAttempts, req, auth, jar, passwordResetTokens, rst, minted, probe, cfm, pwChanges, reg, pat, passwords, pwIds, loginEntries, trustedDevices>>

\* GET /passwords/:user_id/files, lines 80-83: the answer of a stranger is
\* sent by the handler itself
ExportStart(s, caller, userId) ==
  /\ PwFree(s)
  /\ calls < MaxCalls
  /\ calls' = calls + 1
  /\ LET q == [IdlePw EXCEPT !.route = "export", !.caller = caller, !.userId = userId]
     IN pwr' = [pwr EXCEPT ![s] =
          IF userId # caller THEN PwDone(q, Res(403, "Forbidden"))
          ELSE [q EXCEPT !.pc = "archive"]]
  /\ UNCHANGED <<now, ticks, users, loginAttempts, req, auth, jar, passwordResetTokens, rst, minted, probe, cfm, pwChanges, reg, pat, files, passwords, pwIds, loginEntries, trustedDevices>>

\* createUserFilesZip: the files of the directory are piped to the response
ExportArchive(s) ==
  /\ pwr[s].route = "export" /\ pwr[s].pc = "archive"
  /\ pwr' = [pwr EXCEPT ![s] = PwDone(@, Res(200, "application/zip"))]
  /\ UNCHANGED <<now, ticks, calls, users, loginAttempts, req, auth, jar, passwordResetTokens, rst, minted, probe, cfm, pwChanges, reg, pat, files, passwords, pwIds, loginEntries, trustedDevices>>

\* DELETE /passwords/:user_id/passwords/:platform/:login, lines 214-217
DeleteStart(s, caller, userId, platform, login) ==
  /\ PwFree(s)
  /\ calls < MaxCalls
  /\ calls' = calls + 1
  /\ LET q == [IdlePw EXCEPT !.route = "delete", !.caller = caller, !.userId = userId]
     IN pwr' = [pwr EXCEPT ![s] =
          IF ~ MatchesUserIdPattern(userId) THEN PwDone(q, ErrorMiddleware(400, "Invalid user ID"))
          ELSE IF userId # caller THEN PwDone(q, ErrorMiddleware(403, "Forbidden"))
          ELSE [q EXCEPT !.pc = "select", !.platform = platform, !.login = login]]
  /\ UNCHANGED <<now, ticks, users, loginAttempts, req, auth, jar, passwordResetTokens, rst, minted, probe, cfm, pwChanges, reg, pat, files, passwords, pwIds, loginEntries, trustedDevices>>

\* lines 217-222
DeleteSelect(s) ==
  /\ pwr[s].route = "delete" /\ pwr[s].pc = "select"
  /\ LET found == getPasswordByUserPlatformLogin(passwords, pwr[s].userId, pwr[s].platform, pwr[s].login)
     IN pwr' = [pwr EXCEPT ![s] =
          IF found = {} THEN PwDone(@, ErrorMiddleware(404, "Password not found"))
          ELSE [@ EXCEPT !.pc = "access", !.id = (CHOOSE r \in found : TRUE).id]]
  /\ UNCHANGED <<now, ticks, calls, users, loginAttempts, req, auth, jar, passwordResetTokens, rst, minted, probe, cfm, pwChanges, reg, pat, files, passwords, pwIds, loginEntries, trustedDevices>>

\* deletePasswordFile, lines 62-72 of the file store: fs.access has
\* answered
DeleteAccess(s) ==
  /\ pwr[s].route = "delete" /\ pwr[s].pc = "access"
  /\ pwr' = [pwr EXCEPT ![s].pc =
       IF access(files, pwr[s].userId, deletePasswordFileName(pwr[s].id))
       THEN "unlink" ELSE "deletePassword"]
  /\ UNCHANGED <<now, ticks, calls, users, loginAttempts, req, auth, jar, passwordResetTokens, rst, minted, probe, cfm, pwChanges, reg, pat, files, passwords, pwIds, loginEntries, trustedDevices>>

\* deletePasswordFile, line 73: fs.unlink; its rejection leaves the handler
\* through the error middleware
DeleteUnlink(s) ==
  /\ pwr[s].route = "delete" /\ pwr[s].pc = "unlink"
  /\ LET out == unlink(files, pwr[s].userId, deletePasswordFileName(pwr[s].id))
     IN /\ files' = out.fs
        /\ pwr' = [pwr EXCEPT ![s] =
             IF out.error # "" THEN PwDone(@, ErrorMiddleware(0, out.error))
             ELSE [@ EXCEPT !.pc = "deletePassword"]]
  /\ UNCHANGED <<now, ticks, calls, users, loginAttempts, req, auth, jar, passwordResetTokens, rst, minted, probe, cfm, pwChanges, reg, pat, passwords, pwIds, loginEntries, trustedDevices>>

\* the Error the database driver rejects with when the connection is lost
DbFailure == "Connection terminated unexpectedly"

\* lines 224-225: deletePassword resolves, or rejects (dbError)
DeletePasswordRow(s, dbError) ==
  /\ pwr[s].route = "delete" /\ pwr[s].pc = "deletePassword"
  /\ IF dbError
     THEN /\ passwords' = passwords
          /\ pwr' = [pwr EXCEPT ![s] = PwDone(@, ErrorMiddleware(0, DbFailure))]
     ELSE /\ passwords' = deletePassword(passwords, pwr[s].userId, pwr[s].platform, pwr[s].login)
          /\ pwr' = [pwr EXCEPT ![s] = PwDone(@, Res(200, "deleted"))]
  /\ UNCHANGED <<now, ticks, calls, users, loginAttempts, req, auth, jar, passwordResetTokens, rst, minted, probe, cfm, pwChanges, reg, pat, files, pwIds, loginEntries, trustedDevices>>

(***************************************************************************)
(* Time                                                                    *)
(***************************************************************************)
Tick(d) ==
  /\ ticks < MaxTicks
  /\ now' = now + d
  /\ ticks' = ticks + 1
  /\ UNCHANGED <<calls, users, loginAttempts, req, auth, jar, passwordResetTokens, rst, minted, probe, cfm, pwChanges, reg, pat, files, passwords, pwIds, pwr, loginEntries, trustedDevices>>

(***************************************************************************)
(* The login specification                                                 *)
(***************************************************************************)
LoginBodies ==
  {[login |-> "a@example.com", password |-> "pw1", token2 |-> "tok"],
   [login |-> "a@example.com", password |-> "bad", token2 |-> "tok"],
   [login |-> "b@example.com", password |-> "pw2", token2 |-> "tok"],
   [login |-> "nobody@example.com", password |-> "pw1", token2 |-> "tok"],
   [login |-> Undefined, password |-> "pw1", token2 |-> "tok"],
   [login |-> "a@example.com", password |-> NotAString, token2 |-> "tok"],
   [login |-> "a@example.com", password |-> "pw1", token2 |-> Blank]}

LoginTickSteps == {1, TenMinutesMs \div 2}

\* the login_attempts table as earlier requests have left it: k failed
\* attempts on one account, recorded at the instant the model starts from
FailedHistory(u, k) == [i \in 1..k |-> [userId |-> u, timestamp |-> 0, success |-> FALSE]]

InitialAttempts == {FailedHistory("u1", k) : k \in 0..MaxFailedAttempts}

InitCommon ==
  /\ now = 0
  /\ ticks = 0
  /\ calls = 0
  /\ users = InitialUsers
  /\ req = [r \in ReqSlots |-> IdleReq]
  /\ auth = IdleAuth
  /\ jar = {}
  /\ rst = [s \in RstSlots |-> IdleRst]
  /\ probe = NoProbe
  /\ cfm = [c \in CfmSlots |-> IdleCfm]
  /\ pwChanges = [t \in ResetTokens |-> 0]
  /\ reg = IdleReg
  /\ pat = IdlePat
  /\ pwr = [s \in PwSlots |-> IdlePw]
  /\ loginEntries = << >>
  /\ trustedDevices = {}

\* no credential has been saved: every account has its empty directory
NoCredentials ==
  /\ files = [u \in UserIds |-> NoFiles]
  /\ passwords = {}
  /\ pwIds = 0

InitLogin ==
  /\ InitCommon
  /\ NoCredentials
  /\ passwordResetTokens = {}
  /\ minted = 0
  /\ loginAttempts \in InitialAttempts

NextLogin ==
  \/ \E r \in Slots, body \in LoginBodies : LoginStart(r, body)
  \/ \E r \in Slots : LoginSelectUser(r)
  \/ \E r \in Slots : LoginCanUserLogin(r)
  \/ \E r \in Slots : LoginRecord(r)
  \/ \E r \in Slots, ok \in BOOLEAN : LoginCaptcha(r, ok)
  \/ \E d \in LoginTickSteps : Tick(d)

SpecLogin == InitLogin /\ [][NextLogin]_vars

(***************************************************************************)
(* middleware/auth.js                                                      *)
(***************************************************************************)
AuthDone(q, status, detail) == [q EXCEPT !.pc = "done", !.res = Res(status, detail)]

\* lines 23-27 and the catch of lines 42-50: the cookie is read and verified
authenticateToken(token, t) ==
  LET q == [IdleAuth EXCEPT !.token = token]
  IN IF token = NoToken THEN AuthDone(q, 401, "No token provided")
     ELSE LET v == JwtVerify(token, SECRET_KEY, t)
          IN IF v = "ok" THEN [q EXCEPT !.pc = "getUserById"]
             ELSE IF v = "TokenExpiredError" THEN AuthDone(q, 401, "Token has expired")
             ELSE IF v = "JsonWebTokenError" THEN AuthDone(q, 401, "Invalid token")
             ELSE AuthDone(q, 500, "Internal server error")

\* a middleware that does not check the row getUserById returned
authenticateTokenNextWithoutUser(q, tbl, dbError) ==
  IF dbError THEN AuthDone(q, 500, "Internal server error")
  ELSE [q EXCEPT !.pc = "done", !.user = q.token.user_id, !.nexts = @ + 1]

\* lines 27-41: getUserById has answered (or rejected, dbError)
authenticateTokenGotUser(q, tbl, dbError) ==
  IF dbError THEN AuthDone(q, 500, "Internal server error")
  ELSE LET user == getUserById(tbl, q.token.user_id)
       IN IF user = NoUser THEN AuthDone(q, 401, "User not found")
          ELSE [q EXCEPT !.pc = "done", !.user = user, !.nexts = @ + 1]

AuthStart(token) ==
  /\ auth.pc \in {"idle", "done"}
  /\ calls < MaxCalls
  /\ calls' = calls + 1
  /\ auth' = authenticateToken(token, now)
  /\ UNCHANGED <<now, ticks, users, loginAttempts, req, jar, passwordResetTokens, rst, minted, probe, cfm, pwChanges, reg, pat, files, passwords, pwIds, pwr, loginEntries, trustedDevices>>

AuthGetUser(dbError) ==
  /\ auth.pc = "getUserById"
  /\ auth' = authenticateTokenGotUser(auth, users, dbError)
  /\ UNCHANGED <<now, ticks, calls, users, loginAttempts, req, jar, passwordResetTokens, rst, minted, probe, cfm, pwChanges, reg, pat, files, passwords, pwIds, pwr, loginEntries, trustedDevices>>

\* a users row is deleted in the database; the foreign keys cascade
DeleteUserRow(u) ==
  /\ u \in DOMAIN users
  /\ DOMAIN users = UserIds
  /\ users' = [v \in DOMAIN users \ {u} |-> users[v]]
  /\ loginAttempts' = SelectSeq(loginAttempts, LAMBDA row : row.userId # u)
  /\ passwordResetTokens' = {row \in passwordResetTokens : row.userId # u}
  /\ UNCHANGED <<now, ticks, calls, req, auth, jar, rst, minted, probe, cfm, pwChanges, reg, pat, files, passwords, pwIds, pwr, loginEntries, trustedDevices>>

\* cookies a client can present: none, one the server has set, one signed
\* with another key
Forged(token) == [token EXCEPT !.key = "attacker"]

Cookies ==
  {NoToken, Forged(JwtSign("u1", SECRET_KEY, TOKEN_EXPIRATION_MINUTES, 0))}
    \cup jar \cup {Forged(token) : token \in jar}

(***************************************************************************)
(* The session specification: logins that succeed, then authenticated      *)
(* requests around the expiry of the token                                 *)
(***************************************************************************)
SessionBodies ==
  {[login |-> "a@example.com", password |-> "pw1", token2 |-> "tok"],
   [login |-> "b@example.com", password |-> "pw2", token2 |-> "tok"]}

SessionTickSteps == {1, 999, (TOKEN_EXPIRATION_MINUTES * 60 - 1) * 1000}

InitSession ==
  /\ InitCommon
  /\ NoCredentials
  /\ passwordResetTokens = {}
  /\ minted = 0
  /\ loginAttempts = << >>

NextSession ==
  \/ \E body \in SessionBodies : LoginStart(1, body)
  \/ LoginSelectUser(1)
  \/ LoginCanUserLogin(1)
  \/ LoginRecord(1)
  \/ \E ok \in BOOLEAN : LoginCaptcha(1, ok)
  \/ \E token \in Cookies : AuthStart(token)
  \/ \E dbError \in BOOLEAN : AuthGetUser(dbError)
  \/ \E u \in UserIds : DeleteUserRow(u)
  \/ \E d \in SessionTickSteps : Tick(d)

SpecSession == InitSession /\ [][NextSession]_vars

(***************************************************************************)
(* The reset-token specification: two reset requests that may interleave,  *)
(* and callers of verifyResetToken and deleteResetToken                    *)
(***************************************************************************)
ResetLogins == {"a@example.com", "b@example.com", "nobody@example.com", ""}

\* a request is answered within moments: the clock of this specification
\* moves, and the queries are called from outside, between requests
Quiet == \A s \in RstSlots : rst[s].pc \in {"idle", "done"}

InitReset ==
  /\ InitCommon
  /\ NoCredentials
  /\ passwordResetTokens = {}
  /\ minted = 0
  /\ loginAttempts = << >>

NextReset ==
  \/ \E s \in RstSlots, login \in ResetLogins : ResetStart(s, login)
  \/ \E s \in RstSlots : ResetGetUser(s)
  \/ \E s \in RstSlots : ResetDelete(s)
  \/ \E s \in RstSlots : ResetInsert(s)
  \/ \E s \in RstSlots, sent \in BOOLEAN : ResetEmail(s, sent)
  \/ Quiet /\ \E token \in 0..minted : CallVerifyResetToken(token)
  \/ Quiet /\ \E token \in 0..minted : CallDeleteResetToken(token)
  \/ Quiet /\ ticks < MaxResetTicks /\ Tick(1)
  \/ Quiet /\ ticks < MaxResetTicks /\ Tick(ResetTokenLifetimeMs)

SpecReset == InitReset /\ [][NextReset]_vars

(***************************************************************************)
(* The reset-confirm specification                                         *)
(***************************************************************************)
\* the password_reset_tokens table as earlier reset requests have left it:
\* one token for each account, saved at the instant the model starts from
IssuedTokens ==
  {[id |-> 1, userId |-> "u1", token |-> 1, expiresAt |-> ResetTokenLifetimeMs],
   [id |-> 2, userId |-> "u2", token |-> 2, expiresAt |-> ResetTokenLifetimeMs]}

\* NoResetToken is a body without resetToken
ConfirmBodies ==
  {[resetToken |-> t, newPassword |-> p] :
     t \in ResetTokens \cup {NoResetToken}, p \in {"new1", "new2", Undefined}}

CfmQuiet == \A c \in CfmSlots : cfm[c].pc \in {"idle", "done"}

InitConfirm ==
  /\ InitCommon
  /\ NoCredentials
  /\ loginAttempts = << >>
  /\ passwordResetTokens = IssuedTokens
  /\ minted = 2

NextConfirm ==
  \/ \E c \in CfmSlots, body \in ConfirmBodies : ConfirmStart(c, body)
  \/ \E c \in CfmSlots : ConfirmSelectToken(c)
  \/ \E c \in CfmSlots : ConfirmSelectUser(c)
  \/ \E c \in CfmSlots : ConfirmUpdateUser(c)
  \/ \E c \in CfmSlots : ConfirmDeleteToken(c)
  \/ CfmQuiet /\ ticks < MaxResetTicks /\ Tick(1)
  \/ CfmQuiet /\ ticks < MaxResetTicks /\ Tick(ResetTokenLifetimeMs)

SpecConfirm == InitConfirm /\ [][NextConfirm]_vars

(***************************************************************************)
(* The accounts specification                                              *)
(***************************************************************************)
RegisterLogins == {"a@example.com", "c@example.com", "d@example.com"}

RegisterBodies ==
  {[first_name |-> f, login |-> l, password |-> p] :
     f \in {"Jan", Undefined}, l \in RegisterLogins \cup {Undefined, Blank},
     p \in {"SilneHaslo123!", WeakPassword, Undefined}}

InitRegister ==
  /\ InitCommon
  /\ NoCredentials
  /\ loginAttempts = << >>
  /\ passwordResetTokens = {}
  /\ minted = 0

NextRegister ==
  \/ \E body \in RegisterBodies : Register(body)
  \/ \E login \in RegisterLogins, password \in {"SilneHaslo123!", "InneHaslo456!"} :
       CallCreateUser(login, password)
  \/ \E caller \in UserIds, userId \in UserIds, body \in RegisterBodies :
       PatchStart(caller, userId, body)
  \/ PatchUpdateUser
  \/ PatchGetUser

SpecRegister == InitRegister /\ [][NextRegister]_vars

(***************************************************************************)
(* The credentials specification                                           *)
(***************************************************************************)
\* platform and login values: "a", "a/b", "c", "b/c"
PlatformA == <<"a">>
PlatformAB == <<"a", "/", "b">>
LoginC == <<"c">>
LoginBC == <<"b", "/", "c">>
CredentialKeys == {<<PlatformA, LoginC>>, <<PlatformAB, LoginC>>, <<PlatformA, LoginBC>>}

SaveBodies ==
  {[platform |-> k[1], login |-> k[2], password |-> p] :
     k \in CredentialKeys, p \in {"s1", "s2"}}
  \cup {[platform |-> << >>, login |-> LoginC, password |-> "s1"],
        [platform |-> PlatformA, login |-> LoginC, password |-> Blank]}

Item(k, p) == [platform |-> k[1], login |-> k[2], new_password |-> p, wellFormed |-> TRUE]

BulkBodies ==
  {[isArray |-> TRUE, items |-> <<Item(k, p)>>] : k \in CredentialKeys, p \in {"s3", Undefined}}
  \cup {[isArray |-> TRUE, items |-> <<Item(<<PlatformA, LoginC>>, "s3"), Item(<<PlatformAB, LoginC>>, "s3")>>],
        [isArray |-> TRUE, items |-> <<[Item(<<PlatformA, LoginC>>, "s3") EXCEPT !.wellFormed = FALSE]>>],
        [isArray |-> TRUE, items |-> << >>],
        NoList}

\* the callers authenticateToken has let through, and the :user_id they name
\* who asks, and the :user_id of the path
Callers == {<<"u1", "u1">>, <<"u2", "u1">>, <<"u1", MalformedUserId>>}

\* the credentials earlier requests have left: none, or the record p1 of
\* u1 for ("a", "c") with its file
StoredCredential ==
  /\ passwords = {[id |-> randomPasswordId(0), userId |-> "u1", platform |-> PlatformA, login |-> LoginC]}
  /\ pwIds = 1
  /\ files = [u \in UserIds |->
       IF u = "u1" THEN (createPasswordFileName(randomPasswordId(0)) :> "s0") ELSE NoFiles]

InitPasswords ==
  /\ InitCommon
  /\ NoCredentials \/ StoredCredential
  /\ loginAttempts = << >>
  /\ passwordResetTokens = {}
  /\ minted = 0

NextPasswords ==
  \/ \E s \in PwSlots, c \in Callers, body \in SaveBodies : SaveStart(s, c[1], c[2], body)
  \/ \E s \in PwSlots : SaveSelect(s)
  \/ \E s \in PwSlots : SaveCreatePassword(s)
  \/ \E s \in PwSlots : SaveMkdir(s)
  \/ \E s \in PwSlots : SaveWriteFile(s)
  \/ \E s \in PwSlots, c \in Callers, k \in CredentialKeys, p \in {"s2", Blank} :
       UpdateStart(s, c[1], c[2], k[1], k[2], p)
  \/ \E s \in PwSlots : UpdateSelect(s)
  \/ \E s \in PwSlots : UpdateMkdir(s)
  \/ \E s \in PwSlots : UpdateWriteFile(s)
  \/ \E s \in PwSlots, c \in Callers, body \in BulkBodies : BulkStart(s, c[1], c[2], body)
  \/ \E s \in PwSlots : BulkSelect(s)
  \/ \E s \in PwSlots : BulkMkdir(s)
  \/ \E s \in PwSlots : BulkWriteFile(s)
  \/ \E s \in PwSlots, c \in Callers, k \in CredentialKeys : DeleteStart(s, c[1], c[2], k[1], k[2])
  \/ \E s \in PwSlots : DeleteSelect(s)
  \/ \E s \in PwSlots : DeleteAccess(s)
  \/ \E s \in PwSlots : DeleteUnlink(s)
  \/ \E s \in PwSlots, dbError \in BOOLEAN : DeletePasswordRow(s, dbError)

SpecPasswords == InitPasswords /\ [][NextPasswords]_vars

(***************************************************************************)
(* Properties of the login throttle and of POST /login (SpecLogin)         *)
(***************************************************************************)
Failures(u) ==
  {i \in 1..Len(loginAttempts) : loginAttempts[i].userId = u /\ ~loginAttempts[i].success}

\* the failed attempts of u that are less than ten minutes old at time t
RecentFailures(u, t) ==
  {i \in Failures(u) : loginAttempts[i].timestamp > t - TenMinutesMs}

Newest(rowset) == SetMax({loginAttempts[i].timestamp : i \in rowset})

\* C1: with 5 or more failed attempts of a user inside the last ten minutes,
\* canUserLogin answers canLogin = false and lockoutUntil = the newest such
\* failure + 10 minutes; once the time is past that lockoutUntil and nothing
\* newer was recorded, it answers canLogin = true.  (A failure exactly ten
\* minutes old is still selected by the query but its lockout has just
\* ended: "inside the last ten minutes" is read as less than ten minutes old.)
C1_LockoutThenRelease ==
  \A u \in UserIds :
    LET check == canUserLogin(loginAttempts, u, now, now)
        recent == RecentFailures(u, now)
    IN /\ Cardinality(recent) >= 5 =>
            check = [canLogin |-> FALSE, lockoutUntil |-> Newest(recent) + 10 * 60 * 1000]
       /\ (\A i \in Failures(u) : loginAttempts[i].timestamp + 10 * 60 * 1000 < now) =>
            check = [canLogin |-> TRUE, lockoutUntil |-> NoTime]

\* a request found the account allowed again although it has 5 failures on
\* record, all of them behind an ended lockout
C1_Witness ==
  \E r \in Slots :
    /\ req[r].pc = "record"
    /\ req[r].loginCheck.canLogin
    /\ Cardinality(Failures(req[r].user)) >= 5
    /\ \A i \in Failures(req[r].user) :
         loginAttempts[i].timestamp + 10 * 60 * 1000 < req[r].timestamp

\* C2: a call of getUserByLoginAndPassword that evaluates the throttle while
\* the account has 5 or more failures inside the last ten minutes returns
\* {error, lockoutUntil = newest failure + 10 minutes}, records a failure
\* and hands that result to the route, whatever password was supplied.
C2_LockedWhateverPassword ==
  [][\A r \in Slots :
       /\ (/\ req[r].pc = "canUserLogin"
           /\ req'[r].pc = "record"
           /\ Cardinality(RecentFailures(req[r].user, now)) >= 5)
          => /\ req'[r].ret =
                  RetLocked(Newest(RecentFailures(req[r].user, now)) + 10 * 60 * 1000)
             /\ req'[r].success = FALSE
       /\ (req[r].pc = "record" /\ req[r].ret.kind = "locked" /\ req'[r] # req[r])
          => /\ req'[r].pc = "done"
             /\ req'[r].ret = req[r].ret
             /\ req'[r].res.cookie = NoToken
             /\ loginAttempts' = Append(loginAttempts,
                  [userId |-> req[r].user, timestamp |-> req[r].timestamp, success |-> FALSE])
    ]_vars

\* the sixth call, with the correct password, after five failures that lie
\* within two minutes of each other
C2_Witness ==
  \E r \in Slots :
    /\ req[r].pc = "record"
    /\ req[r].ret.kind = "locked"
    /\ Sha256(req[r].password) = users[req[r].user].password
    /\ \E five \in SUBSET Failures(req[r].user) :
         /\ Cardinality(five) = 5
         /\ \A i, j \in five :
              loginAttempts[i].timestamp - loginAttempts[j].timestamp <= 2 * 60 * 1000
         /\ req[r].ret.lockoutUntil = Newest(five) + 10 * 60 * 1000

\* C3: POST /login on a locked account answers 400 'Account locked until
\* <lockoutUntil>' and sets no cookie.
C3_LockedAnswers400 ==
  \A r \in Slots :
    (req[r].pc = "done" /\ req[r].ret.kind = "locked")
    => /\ req[r].res.status = 400
       /\ req[r].res.detail = "Account locked until"
       /\ req[r].res.until = req[r].ret.lockoutUntil
       /\ req[r].res.cookie = NoToken

\* C4: on an account that is not locked, an unknown login and a wrong
\* password are both answered 401 'Invalid login or password', no cookie.
C4_InvalidCredentials401 ==
  \A r \in Slots :
    (req[r].pc = "done" /\ req[r].ret.kind = "null")
    => req[r].res = Res(401, "Invalid login or password")

\* C5: the cookie 'token' is set only by the step that follows a true
\* CAPTCHA answer, in a request whose login exists, which canUserLogin
\* allowed and whose password digest equals the stored one; it names that
\* account and is signed with SECRET_KEY; nothing else issues a token.
C5_TokenOnlyAfterAllChecks ==
  [][/\ \A r \in Slots :
          (req'[r].res.cookie # NoToken /\ req'[r] # req[r])
          => /\ req[r].pc = "captcha"
             /\ req[r].user \in DOMAIN users
             /\ users[req[r].user].login = req[r].login
             /\ req[r].loginCheck.canLogin
             /\ Sha256(req[r].password) = users[req[r].user].password
             /\ req'[r].recaptcha = "true"
             /\ req'[r].res.status = 200
             /\ req'[r].res.cookie.user_id = req[r].user
             /\ req'[r].res.cookie.key = SECRET_KEY
             /\ jar' = jar \cup {req'[r].res.cookie}
     /\ jar' # jar => \E r \in Slots : req[r].pc = "captcha" /\ req'[r].res.cookie # NoToken
    ]_vars

C5_Witness ==
  \E r \in Slots :
    /\ req[r].pc = "done"
    /\ req[r].res.cookie # NoToken
    /\ req[r].res.cookie \in jar
    /\ req[r].recaptcha = "true"

C7_FixedLifetime ==
  /\ [](\A token \in jar :
          /\ token.exp = token.iat + TOKEN_EXPIRATION_MINUTES * 60
          /\ (authenticateToken(token, now).pc = "getUserById")
               <=> (now \div 1000 < token.iat + TOKEN_EXPIRATION_MINUTES * 60)
          /\ (authenticateToken(token, now).res = Res(401, "Token has expired"))
               <=> (now \div 1000 >= token.iat + TOKEN_EXPIRATION_MINUTES * 60))
  /\ [][/\ jar \subseteq jar'
        /\ jar' # jar => \E r \in Slots : req[r].pc = "captcha" /\ req'[r].pc = "done"
       ]_vars

\* a token is refused in the very second its lifetime ends
C7_Witness ==
  /\ auth.pc = "done"
  /\ auth.token \in jar
  /\ auth.res = Res(401, "Token has expired")
  /\ now \div 1000 = auth.token.iat + TOKEN_EXPIRATION_MINUTES * 60

C9_OneTokenPerUser ==
  \A u \in UserIds : Cardinality({x \in passwordResetTokens : x.userId = u}) <= 1

\* C10: deleteResetToken deletes the row and returns true when the token
\* has a row, and returns false and changes nothing when it has none: so
\* for the call that follows a delete of the same token, and so for a
\* token that was never issued.
C10_DeleteResetToken ==
  /\ [][(probe' # probe /\ probe'.fn = "deleteResetToken")
        => LET existed == \E x \in passwordResetTokens : x.token = probe'.token
           IN /\ probe'.result = (IF existed THEN "true" ELSE "false")
              /\ \A x \in passwordResetTokens' : x.token # probe'.token
              /\ passwordResetTokens' \subseteq passwordResetTokens
              /\ \A x \in passwordResetTokens \ passwordResetTokens' : x.token = probe'.token
              /\ ~existed => passwordResetTokens' = passwordResetTokens
       ]_vars
  /\ [](probe.fn = "deleteResetToken"
        => /\ probe.prev # "none" => probe.result = "false"
           /\ probe.token = 0 => probe.result = "false")

\* the second of two deletes of one token: the first returned true
C10_Witness ==
  /\ probe.fn = "deleteResetToken"
  /\ probe.prev = "true"
  /\ probe.result = "false"

\* C11: the row saveResetToken inserts at time T expires at T + 10 hours;
\* verifyResetToken returns the account of a stored token at every time up
\* to and including its expiresAt, null at every later time, and null for
\* a token that has no row.
C11_ResetTokenValidity ==
  /\ [][\A s \in RstSlots :
          (rst[s].pc = "insert" /\ rst'[s].pc = "email")
          => \E x \in passwordResetTokens' :
               /\ x.token = rst[s].token
               /\ x.userId = rst[s].user
               /\ x.expiresAt = now + 10 * 60 * 60 * 1000
       ]_vars
  /\ [][(probe' # probe /\ probe'.fn = "verifyResetToken")
        => LET stored == {x \in passwordResetTokens : x.token = probe'.token}
           IN /\ stored = {} => probe'.result = NoUser
              /\ \A x \in stored :
                   probe'.result = (IF now <= x.expiresAt THEN x.userId ELSE NoUser)
       ]_vars

\* a stored token that verified to its account verifies to null once its
\* expiresAt has passed
C11_Witness ==
  /\ probe.fn = "verifyResetToken"
  /\ probe.prev \in UserIds
  /\ probe.result = NoUser
  /\ \E x \in passwordResetTokens : x.token = probe.token /\ x.expiresAt < now

(***************************************************************************)
(* Properties of POST /users/reset-password/confirm (SpecConfirm)          *)
(***************************************************************************)
\* C12: a reset token authorizes at most one password change, also when
\* two confirm requests that carry it interleave their verifyResetToken,
\* updateUser and deleteResetToken steps.
C12_SingleUse ==
  \A t \in ResetTokens : pwChanges[t] <= 1

(***************************************************************************)
(* Properties of POST /users/reset-password (SpecReset)                    *)
(***************************************************************************)
\* C13: every request with a non-empty login is answered 200 with the
\* fixed message, whether or not the login has an account; for an unknown
\* login no token is stored and no email is sent.
C13_SameAnswerForEveryLogin ==
  /\ [][\A s \in RstSlots :
          (rst[s].pc \notin {"idle", "done"} /\ rst'[s].pc = "done")
          => rst'[s].res = GenericResetAnswer]_vars
  /\ [][\A s \in RstSlots :
          (/\ rst[s].pc = "getUserByLogin"
           /\ rst'[s] # rst[s]
           /\ ~ \E u \in DOMAIN users : users[u].login = rst[s].login)
          => /\ rst'[s].pc = "done"
             /\ passwordResetTokens' = passwordResetTokens
             /\ minted' = minted]_vars

(***************************************************************************)
(* Properties of the accounts (SpecRegister)                               *)
(***************************************************************************)
\* C14: a registration whose fields pass validation and whose login
\* belongs to an account is answered 400 'Login already exists', and it
\* creates no account row and no directory and leaves the accounts as
\* they are.
C14_DuplicateLoginRejected ==
  [][(/\ reg' # reg
      /\ ValidationErrors(reg'.body) = ""
      /\ \E u \in DOMAIN users : users[u].login = reg'.body.login)
     => /\ reg'.res = Res(400, "Login already exists")
        /\ users' = users
        /\ files' = files]_vars

C16_DuplicateCredentialRejected ==
  [][\A s \in PwSlots :
       (/\ pwr[s].route = "save" /\ pwr[s].pc = "select"
        /\ pwr'[s] # pwr[s]
        /\ \E r \in passwords : /\ r.userId = pwr[s].userId
                                /\ r.platform = pwr[s].platform
                                /\ r.login = pwr[s].login)
       => /\ pwr'[s].pc = "done"
          /\ pwr'[s].res = Res(400, "Login credentials already exist")
          /\ passwords' = passwords
          /\ files' = files]_vars

\* a save request was refused as a duplicate
C16_Witness ==
  \E s \in PwSlots :
    /\ pwr[s].pc = "done" /\ pwr[s].route = "save"
    /\ pwr[s].res = Res(400, "Login credentials already exist")
    /\ passwords # {}

C18_BulkRejectsOtherKeySet ==
  [][\A s \in PwSlots :
       (/\ pwr[s].route = "bulk" /\ pwr[s].pc = "select"
        /\ pwr'[s] # pwr[s]
        /\ {r \in passwords : r.userId = pwr[s].userId} # {}
        /\ pwr[s].passwordsall.isArray
        /\ \A k \in DOMAIN pwr[s].passwordsall.items : pwr[s].passwordsall.items[k].wellFormed
        /\ {<<r.platform, r.login>> : r \in {x \in passwords : x.userId = pwr[s].userId}}
             # {<<pwr[s].passwordsall.items[k].platform, pwr[s].passwordsall.items[k].login>> :
                  k \in DOMAIN pwr[s].passwordsall.items})
       => /\ pwr'[s].pc = "done"
          /\ pwr'[s].res = Res(400, "All accounts must be updated")
          /\ passwords' = passwords
          /\ files' = files]_vars

C24_OneRowPerCall ==
  [][/\ \A r \in Slots :
          /\ (req[r].pc = "selectUser" /\ req'[r] # req[r])
             => /\ loginAttempts' = loginAttempts
                /\ IF \E u \in DOMAIN users : users[u].login = req[r].login
                   THEN req'[r].pc = "canUserLogin"
                   ELSE req'[r].pc = "done"
          /\ (req[r].pc = "canUserLogin" /\ req'[r] # req[r])
             => /\ loginAttempts' = loginAttempts
                /\ req'[r].pc = "record"
          /\ (req[r].pc = "record" /\ req'[r] # req[r])
             => /\ loginAttempts' = Append(loginAttempts,
                     [userId |-> req[r].user, timestamp |-> req[r].timestamp,
                      success |-> (/\ req[r].loginCheck.canLogin
                                   /\ Sha256(req[r].password) = users[req[r].user].password)])
                /\ users[req[r].user].login = req[r].login
                /\ req'[r].pc \in {"done", "captcha"}
     /\ loginAttempts' # loginAttempts
          => /\ \E r \in Slots : req[r].pc = "record" /\ req'[r] # req[r]
             /\ Len(loginAttempts') = Len(loginAttempts) + 1
             /\ SubSeq(loginAttempts', 1, Len(loginAttempts)) = loginAttempts
    ]_vars

\* a successful and then a failed call have each left their row
C24_Witness ==
  /\ Len(loginAttempts) >= 2
  /\ loginAttempts[Len(loginAttempts) - 1].success
  /\ ~ loginAttempts[Len(loginAttempts)].success
  /\ \E r \in Slots : req[r].pc = "done"

\* the failed rows of u that the select of canUserLogin returns at time t
WindowFailures(u, t) ==
  {i \in Failures(u) : loginAttempts[i].timestamp >= t - 10 * 60 * 1000}

\* the rows of the table that are failed rows of u inside the window
OnlyWindowFailures(u, t) ==
  SelectSeq(loginAttempts,
            LAMBDA x : x.userId = u /\ ~ x.success /\ x.timestamp >= t - 10 * 60 * 1000)

\* C26 as stated: canUserLogin(U) answers canLogin = false exactly when U
\* has 5 or more rows with success = false and timestamp >= now - 10 minutes.
C26_LockedIffFiveInWindow ==
  \A u \in UserIds :
    (~ canUserLogin(loginAttempts, u, now, now).canLogin)
      <=> Cardinality(WindowFailures(u, now)) >= 5

\* C26, amended: canLogin = false exactly when U has 5 or more rows with
\* success = false and timestamp >= now - 10 minutes and the newest of
\* them is less than 10 minutes old; successful rows, older rows and rows
\* of other users do not change the answer; with no rows the answer is
\* canLogin = true.
C26_LockedIffFiveInWindowAndNewestRecent ==
  \A u \in UserIds :
    LET check == canUserLogin(loginAttempts, u, now, now)
        window == WindowFailures(u, now)
    IN /\ (~ check.canLogin)
            <=> (Cardinality(window) >= 5 /\ Newest(window) + 10 * 60 * 1000 > now)
       /\ check = canUserLogin(OnlyWindowFailures(u, now), u, now, now)
       /\ (\A i \in 1..Len(loginAttempts) : loginAttempts[i].userId # u) => check.canLogin

\* an account is locked while the table also holds a successful row
C26_Witness ==
  \E u \in UserIds :
    /\ ~ canUserLogin(loginAttempts, u, now, now).canLogin
    /\ \E i \in 1..Len(loginAttempts) : loginAttempts[i].success
    /\ now > 0

\* C27: a call rejected by the throttle records a failed attempt; until
\* 10 minutes after that attempt the throttle answers canLogin = false
\* with lockoutUntil = that attempt's timestamp + 10 minutes.
C27_RejectedAttemptExtendsLockout ==
  \A r \in Slots :
    (req[r].pc = "done" /\ req[r].ret.kind = "locked")
    => LET last == loginAttempts[Len(loginAttempts)]
       IN /\ last.userId = req[r].user
          /\ ~ last.success
          /\ now < last.timestamp + 10 * 60 * 1000
               => canUserLogin(loginAttempts, req[r].user, now, now) =
                    [canLogin |-> FALSE, lockoutUntil |-> last.timestamp + 10 * 60 * 1000]

\* C28: when a successful row of a user has 4 failed rows before it and a
\* failed row after it, all less than 10 minutes old, canUserLogin answers
\* canLogin = false.
C28_SuccessDoesNotReset ==
  \A u \in UserIds : \A k \in 1..Len(loginAttempts) :
    (/\ loginAttempts[k].userId = u /\ loginAttempts[k].success
     /\ loginAttempts[k].timestamp > now - 10 * 60 * 1000
     /\ Cardinality({i \in RecentFailures(u, now) : i < k}) >= 4
     /\ Cardinality({i \in RecentFailures(u, now) : i > k}) >= 1)
    => ~ canUserLogin(loginAttempts, u, now, now).canLogin

\* 4 failures, a success and a failure are on record and less than 10
\* minutes old
C28_Witness ==
  \E u \in UserIds : \E k \in 1..Len(loginAttempts) :
    /\ loginAttempts[k].userId = u /\ loginAttempts[k].success
    /\ loginAttempts[k].timestamp > now - 10 * 60 * 1000
    /\ Cardinality({i \in RecentFailures(u, now) : i < k}) = 4
    /\ Cardinality({i \in RecentFailures(u, now) : i > k}) = 1

\* C29: while no attempt is recorded, a lockout that canUserLogin reports
\* with lockoutUntil = T is still reported at every later time before T.
C29_LockoutLastsUntilReported ==
  [][\A u \in UserIds :
       LET check == canUserLogin(loginAttempts, u, now, now)
       IN (/\ loginAttempts' = loginAttempts
           /\ ~ check.canLogin
           /\ now' > now /\ now' < check.lockoutUntil)
          => ~ canUserLogin(loginAttempts, u, now', now').canLogin]_vars

(***************************************************************************)
(* Properties of saveResetToken (SpecReset)                                *)
(***************************************************************************)
\* C30: saveResetToken replaces the token of a user as one unit: in no
\* state that another request can run in has the previous token of the
\* user been deleted while the new one is not yet stored.
C30_NoGapBetweenDeleteAndInsert ==
  \A s \in RstSlots :
    (rst[s].pc = "insert" /\ rst[s].prior # {})
    => \E x \in passwordResetTokens : x.userId = rst[s].user

C22_DeleteFileNeverFails ==
  [][\A s \in PwSlots :
       (pwr[s].route = "delete" /\ pwr[s].pc \in {"access", "unlink"} /\ pwr'[s] # pwr[s])
       => LET name == SubSeq(Sha256Hex[pwr[s].id], 1, 8) \o <<".txt">>
              u == pwr[s].userId
          IN /\ pwr'[s].res.status # 500
             /\ pwr'[s].pc \in {"unlink", "deletePassword"}
             /\ pwr'[s].pc = "deletePassword" => name \notin DOMAIN files'[u]
             /\ name \notin DOMAIN files[u] => files' = files]_vars

\* C25: a request in which the filesystem or the database failed is
\* answered 500 with a generic detail, never the message of the error.
C25_GenericServerError ==
  \A s \in PwSlots :
    pwr[s].pc = "done"
    => pwr[s].res.detail \notin {DbFailure, ConstraintViolation,
                                 "ENOENT: no such file or directory, unlink"}

(***************************************************************************)
(* The routes that take a :user_id: routes/users.js and routes/passwords.js *)
(***************************************************************************)
LoginEntryBodies ==
  {[login |-> "jan", page |-> "example.com"], [login |-> Blank, page |-> "example.com"],
   [login |-> "jan", page |-> Undefined]}

DeviceBodies == {[deviceId |-> "d1", isTrusted |-> t] : t \in BOOLEAN}

OwnershipPatchBodies ==
  {[first_name |-> "Jan", login |-> Undefined, password |-> p] : p \in {"SilneHaslo123!", WeakPassword}}

InitOwnership ==
  /\ InitCommon
  /\ StoredCredential
  /\ loginAttempts = << >>
  /\ passwordResetTokens = {}
  /\ minted = 0

NextOwnership ==
  \/ \E c \in Callers, body \in OwnershipPatchBodies : PatchStart(c[1], c[2], body)
  \/ PatchUpdateUser
  \/ PatchGetUser
  \/ \E c \in Callers : GetUserStart(c[1], c[2])
  \/ GetUserSelect
  \/ \E c \in Callers : GetLoginsStart(c[1], c[2])
  \/ GetLoginsGetUser
  \/ GetLoginsSelect
  \/ \E c \in Callers, entry \in LoginEntryBodies : CreateLoginStart(c[1], c[2], entry)
  \/ CreateLoginInsert
  \/ \E c \in Callers : GetDevicesStart(c[1], c[2])
  \/ GetDevicesSelect
  \/ \E c \in Callers, device \in DeviceBodies : UpsertDeviceStart(c[1], c[2], device)
  \/ UpsertDeviceSelect
  \/ UpsertDeviceWrite
  \/ \E c \in Callers : RemoveDeviceStart(c[1], c[2], "d1")
  \/ RemoveDeviceDelete
  \/ \E c \in Callers : ExportStart(1, c[1], c[2])
  \/ ExportArchive(1)
  \/ \E c \in Callers : SaveStart(1, c[1], c[2], [platform |-> PlatformAB, login |-> LoginC, password |-> "s1"])
  \/ SaveSelect(1)
  \/ SaveCreatePassword(1)
  \/ SaveMkdir(1)
  \/ SaveWriteFile(1)
  \/ \E c \in Callers : UpdateStart(1, c[1], c[2], PlatformA, LoginC, "s2")
  \/ UpdateSelect(1)
  \/ UpdateMkdir(1)
  \/ UpdateWriteFile(1)
  \/ \E c \in Callers : BulkStart(1, c[1], c[2], [isArray |-> TRUE, items |-> <<Item(<<PlatformA, LoginC>>, "s3")>>])
  \/ BulkSelect(1)
  \/ BulkMkdir(1)
  \/ BulkWriteFile(1)
  \/ \E c \in Callers : DeleteStart(1, c[1], c[2], PlatformA, LoginC)
  \/ DeleteSelect(1)
  \/ DeleteAccess(1)
  \/ DeleteUnlink(1)
  \/ DeletePasswordRow(1, FALSE)

SpecOwnership == InitOwnership /\ [][NextOwnership]_vars

(***************************************************************************)
(* Properties of the ownership checks (SpecOwnership)                      *)
(***************************************************************************)
\* a request whose authenticated identity is not the :user_id of its path
Foreign(q) == q.pc # "idle" /\ q.caller # q.userId

\* the records and files of the users
Records == <<users, files, passwords, pwIds, loginEntries, trustedDevices>>

NextIdsCollide ==
  /\ passwords = {}
  /\ pwIds = 4
  /\ files = [u \in UserIds |-> NoFiles]

StoreSaveBodies ==
  {[platform |-> PlatformA, login |-> LoginC, password |-> "s1"],
   [platform |-> PlatformAB, login |-> LoginC, password |-> "s2"]}

StoreBulkBodies ==
  {[isArray |-> TRUE, items |-> <<Item(<<PlatformA, LoginC>>, "s3")>>],
   [isArray |-> TRUE, items |-> <<Item(<<PlatformA, LoginC>>, "s3"), Item(<<PlatformAB, LoginC>>, "s3")>>],
   [isArray |-> TRUE, items |-> <<Item(<<PlatformA, LoginC>>, "s3"), Item(<<PlatformAB, LoginC>>, Undefined)>>]}

InitStore ==
  /\ InitCommon
  /\ NoCredentials \/ StoredCredential \/ NextIdsCollide
  /\ loginAttempts = << >>
  /\ passwordResetTokens = {}
  /\ minted = 0

NextStore ==
  \/ \E s \in PwSlots, body \in StoreSaveBodies : SaveStart(s, "u1", "u1", body)
  \/ \E s \in PwSlots : SaveSelect(s)
  \/ \E s \in PwSlots : SaveCreatePassword(s)
  \/ \E s \in PwSlots : SaveMkdir(s)
  \/ \E s \in PwSlots : SaveWriteFile(s)
  \/ \E s \in PwSlots : SaveWriteFileFails(s)
  \/ \E s \in PwSlots : UpdateStart(s, "u1", "u1", PlatformA, LoginC, "s4")
  \/ \E s \in PwSlots : UpdateSelect(s)
  \/ \E s \in PwSlots : UpdateMkdir(s)
  \/ \E s \in PwSlots : UpdateWriteFile(s)
  \/ \E s \in PwSlots, body \in StoreBulkBodies : BulkStart(s, "u1", "u1", body)
  \/ \E s \in PwSlots : BulkSelect(s)
  \/ \E s \in PwSlots : BulkMkdir(s)
  \/ \E s \in PwSlots : BulkWriteFile(s)
  \/ \E s \in PwSlots, k \in {<<PlatformA, LoginC>>, <<PlatformAB, LoginC>>} :
       DeleteStart(s, "u1", "u1", k[1], k[2])
  \/ \E s \in PwSlots : DeleteSelect(s)
  \/ \E s \in PwSlots : DeleteAccess(s)
  \/ \E s \in PwSlots : DeleteUnlink(s)
  \/ \E s \in PwSlots, dbError \in BOOLEAN : DeletePasswordRow(s, dbError)

SpecStore == InitStore /\ [][NextStore]_vars

(***************************************************************************)
(* Properties of the credential store under failures (SpecStore)           *)
(***************************************************************************)
\* C31: in a save the file of the credential is written before its record
\* is inserted, so a step that inserts a record finds the file of its id in
\* the directory, and a save that ends with an error has left no record of
\* its own in the table.
C31_FileBeforeRecord ==
  [][\A s \in PwSlots :
       /\ \A r \in passwords' \ passwords :
            /\ r.userId \in DOMAIN files
            /\ createPasswordFileName(r.id) \in DOMAIN files[r.userId]
       /\ (pwr[s].route = "save" /\ pwr[s].pc # "done" /\ pwr'[s].pc = "done"
           /\ pwr'[s].res.status # 201)
          => \A r \in passwords' : r.id # pwr[s].id]_vars

\* the names the records of user u give to their files
RecordFiles(u) == {createPasswordFileName(r.id) : r \in {x \in passwords : x.userId = u}}

\* the files in the directory of user u
DirectoryFiles(u) == IF u \in DOMAIN files THEN DOMAIN files[u] ELSE {}

\* C35: whenever no credential request is in flight, the directory of each
\* user holds the file of every record of that user and no other file.
C35_RecordFileCorrespondence ==
  (\A s \in PwSlots : pwr[s].pc \in {"idle", "done"})
  => \A u \in UserIds : DirectoryFiles(u) = RecordFiles(u)

\* C36: an accepted bulk update never ends with an error after it has
\* overwritten a file: a bulk request that is answered with an error was
\* still before its first write.
C36_BulkAllOrNothing ==
  [][\A s \in PwSlots :
       (pwr[s].route = "bulk" /\ pwr[s].pc # "done" /\ pwr'[s].pc = "done"
        /\ pwr'[s].res.status # 200)
       => pwr[s].pc = "select" \/ pwr[s].i = 1]_vars

\* C39: a step that writes or removes the file of record A leaves the file
\* of every other record B of the same user as it was: there or not there,
\* and with the same secret.
C39_OtherRecordsUntouched ==
  [][\A s \in PwSlots :
       (pwr[s].pc \in {"writeFile", "unlink"} /\ pwr'[s] # pwr[s])
       => \A r \in passwords :
            (r.userId = pwr[s].userId /\ r.id # pwr[s].id)
            => LET name == createPasswordFileName(r.id)
                   u == r.userId
               IN /\ (name \in DirectoryFiles(u)) <=> (u \in DOMAIN files' /\ name \in DOMAIN files'[u])
                  /\ name \in DirectoryFiles(u) => files'[u][name] = files[u][name]]_vars

(***************************************************************************)
(* Properties of the trusted devices (SpecOwnership)                       *)
(***************************************************************************)
\* C34: the removal of a trusted device is answered 404 'Device not found'
\* when the user has no row of that device and 200 only when a row was
\* deleted.
C34_RemoveUnknownDeviceNotFound ==
  [][(pat.route = "removeDevice" /\ pat.pc = "deleteTrustedDevice" /\ pat'.pc = "done")
     => IF selectTrustedDevice(trustedDevices, pat.userId, pat.device.deviceId) = {}
        THEN pat'.res = Res(404, "Device not found") /\ trustedDevices' = trustedDevices
        ELSE /\ pat'.res.status = 200
             /\ trustedDevices' # trustedDevices
             /\ selectTrustedDevice(trustedDevices', pat.userId, pat.device.deviceId) = {}]_vars

(***************************************************************************)
(* Properties of the CAPTCHA of the login route (SpecLogin)                *)
(***************************************************************************)
\* C32: a login request whose CAPTCHA validation fails is rejected before
\* any account was looked up, any password compared and any LoginAttempt
\* row written: when validateRecaptcha answers false, the request has no
\* account, no result of getUserByLoginAndPassword and no row of its own.
C32_CaptchaBeforeLookup ==
  [][\A r \in Slots :
       (req'[r] # req[r] /\ req'[r].recaptcha = "false")
       => /\ req[r].user = NoUser
          /\ req[r].ret = NoRet
          /\ ~ \E i \in DOMAIN loginAttempts :
                 /\ loginAttempts[i].userId = req[r].user
                 /\ loginAttempts[i].timestamp = req[r].timestamp]_vars

(***************************************************************************)
(* Properties of the reset confirmation (SpecConfirm)                      *)
(***************************************************************************)
\* C33: when a reset confirmation for token t of account U with newPassword
\* p is answered 200, the stored password of U is the digest of p,
\* verifyResetToken(t) returns null, and the steps of the request have
\* changed no other account and no reset token of another user.
C33_ConfirmPostcondition ==
  [][\A c \in CfmSlots :
       /\ (cfm[c].pc = "deleteResetToken" /\ cfm'[c].pc = "done" /\ cfm'[c].res.status = 200)
          => /\ users'[cfm[c].user].password = Sha256(cfm[c].newPassword)
             /\ verifyResetToken(passwordResetTokens', users', cfm[c].resetToken, now) = NoUser
       /\ (cfm[c].pc \in {"updateUser", "deleteResetToken"} /\ cfm'[c] # cfm[c])
          => /\ \A u \in DOMAIN users \ {cfm[c].user} : users'[u] = users[u]
             /\ DOMAIN users' = DOMAIN users
             /\ \A x \in passwordResetTokens : x.userId # cfm[c].user => x \in passwordResetTokens'
             /\ passwordResetTokens' \subseteq passwordResetTokens]_vars

(***************************************************************************)
(* The throttle specification: login requests for one account that may     *)
(* interleave                                                              *)
(***************************************************************************)
ThrottleBodies ==
  {[login |-> "a@example.com", password |-> "bad", token2 |-> "tok"],
   [login |-> "a@example.com", password |-> "pw1", token2 |-> "tok"]}

InitThrottle ==
  /\ InitCommon
  /\ NoCredentials
  /\ passwordResetTokens = {}
  /\ minted = 0
  /\ loginAttempts \in {FailedHistory("u1", k) : k \in {4, 5}}

NextThrottle ==
  \/ \E r \in ReqSlots, body \in ThrottleBodies : LoginStart(r, body)
  \/ \E r \in ReqSlots : LoginSelectUser(r)
  \/ \E r \in ReqSlots : LoginCanUserLogin(r)
  \/ \E r \in ReqSlots : LoginRecord(r)
  \/ \E r \in ReqSlots, ok \in BOOLEAN : LoginCaptcha(r, ok)
  \/ \E d \in LoginTickSteps : Tick(d)

SpecThrottle == InitThrottle /\ [][NextThrottle]_vars

(***************************************************************************)
(* Properties of the throttle under concurrency (SpecThrottle)             *)
(***************************************************************************)
\* the failed rows of account u that a comparison of a wrong password has
\* left for certain: a request the throttle rejects has seen 5 failed rows
\* of the account, so its own row comes after at least 5 of them
ComparedRows(u) ==
  {i \in DOMAIN loginAttempts :
     /\ loginAttempts[i].userId = u
     /\ ~ loginAttempts[i].success
     /\ Cardinality({j \in 1..(i - 1) : loginAttempts[j].userId = u /\ ~ loginAttempts[j].success})
          < MaxFailedAttempts}

\* the requests for account u that have compared a wrong password and have
\* not recorded it yet
ComparedInFlight(u) ==
  {r \in ReqSlots : /\ req[r].pc = "record" /\ req[r].user = u
                    /\ req[r].loginCheck.canLogin /\ ~ req[r].success}

\* C37: for one account, at most 5 wrong passwords are compared with the
\* stored digest within 10 minutes: the comparisons of the last 10 minutes
\* that are recorded and the ones that are about to be recorded are never
\* more than 5.
C37_AtMostFiveWrongComparisons ==
  \A u \in UserIds :
    Cardinality({i \in ComparedRows(u) : loginAttempts[i].timestamp > now - TenMinutesMs})
      + Cardinality({r \in ComparedInFlight(u) : req[r].timestamp > now - TenMinutesMs})
      <= MaxFailedAttempts

(***************************************************************************)
(* Properties of a failed reset request (SpecReset)                        *)
(***************************************************************************)
\* C38: when a reset request ends with an error, the reset tokens of the
\* account are the ones it had as the request entered saveResetToken: the
\* earlier token is still stored and the new one is not.
C38_FailedResetChangesNothing ==
  [][\A s \in RstSlots :
       (rst[s].pc = "email" /\ rst'[s].pc = "done" /\ rst'[s].res.status # 200)
       => /\ {x.token : x \in {y \in passwordResetTokens' : y.userId = rst[s].user}} = rst[s].prior
          /\ \A x \in passwordResetTokens' : x.token # rst[s].token]_vars

====
